---- MODULE Spec2Model ----
(***************************************************************************)
(* Control plane of piju-server: the file player (FilePlayer), the stream  *)
(* player (StreamPlayer), the player coordinator (select_player and the    *)
(* /player/ and /queue/ routes), the worker queue and the decoder's        *)
(* end-of-song callback.                                                   *)
(*                                                                         *)
(* A queue item is represented by its track id; the file of track t is     *)
(* present on disk iff isfile(t).  The decoders (mpv, mpg123, ffplay) are  *)
(* external processes: the model keeps whether the file player holds one   *)
(* (fp.player) and when a start command is sent to one.                    *)
(***************************************************************************)
EXTENDS Integers, Sequences, FiniteSets, TLC

VARIABLES fp,       \* the FilePlayer object
          call,     \* the FilePlayer method called last and what it returned
          current,  \* app.current_player: "file" or "stream"
          sp,       \* the StreamPlayer object
          workq,    \* app.work_queue
          worker,   \* the WorkerThread: "alive", or "dead" after an uncaught exception
          cb,       \* the decoder's callback thread: position inside on_music_end
          last      \* the HTTP status of the last response; 0 before the first and after a callback

VARIABLES rm,       \* DELETE /queue/ threads between the test and the pop of remove_from_queue
          popped,   \* the last item remove_from_queue popped, and the trackid it was asked for
          volume,   \* FilePlayer.current_volume
          enq,      \* every request put on app.work_queue, in the order of the puts
          ran,      \* every request the worker has taken, in the order it took them
          fin,      \* every request the worker has completed
          job,      \* the request WorkerThread.run is executing
          wstatus,  \* WorkerThread.current_status
          tidy,     \* a POST /scanner/tidy thread is between its two puts
          clients,  \* app.websocket_clients
          conn,     \* the websocket clients that have connected
          closed,   \* the websocket clients that have closed their connection
          got,      \* per client, the state the last snapshot it received was built from
          top,      \* per client, the newest state a snapshot it received was built from
          upds,     \* the threads inside update_now_playing or websocket_client
          ver,      \* how many times the published state has changed
          stream,   \* the StreamPlayer object, field by field
          poll,     \* its NowPlayingUpdater thread
          dl,       \* the DownloadInfoDatabase singleton
          history,  \* DownloadHistory.entries
          db,       \* the catalog: the rows of the Tracks, Albums, Artwork and Genres tables
          files,    \* the paths that are files on disk
          res,      \* the catalog operation called last and how it ended
          dec       \* the decoders the FilePlayer has made, and those whose end-of-song call is under way

rmvars == <<rm, popped>>
wkvars == <<enq, ran, fin, job, wstatus, tidy>>
wsvars == <<clients, conn, closed, got, top, upds, ver>>
stvars == <<stream, poll>>
dlvars == <<dl, history>>
dbvars == <<db, files, res>>
later == <<wsvars, stvars, dlvars, dbvars, dec>>

(* The variables only the threads of the later sections write *)
aux == <<rmvars, volume, wkvars, later>>

vars == <<fp, call, current, sp, workq, worker, cb, last, aux>>

----------------------------------------------------------------------------
(* Bounds *)

MaxQueue == 2           \* the routes add to the queue while it is shorter than this
MaxPlayerQueue == 4     \* direct add_to_queue calls are made while the queue is shorter than this
MaxSetLen == 2          \* longest list handed to set_queue
MaxStation == 2         \* radio stations are 1..MaxStation, in SortOrder
MaxWorkQueue == 1       \* requests waiting in the work queue
MaxClients == 1         \* websocket clients that connect
MaxVersion == 3         \* changes of the published state in one behaviour
MaxUpdaters == 2        \* threads inside update_now_playing or websocket_client together

Clients == 1..MaxClients

(* StreamPlayer.__init__ and NowPlayingUpdater.__init__ *)
StreamPlayerInit ==
    [status |-> "stopped", name |-> <<>>, url |-> <<>>, artwork |-> <<>>,
     station_artwork |-> <<>>, index |-> <<>>, ntracks |-> <<>>, dyn |-> <<>>,
     artist |-> <<>>, track |-> <<>>, proc |-> <<>>]

NowPlayingUpdaterInit == [pc |-> "sleep", next_fetch |-> "due", cap |-> <<>>]

(* DownloadInfoDatabase.__init__: two empty dicts and the next id; the info *)
(* dict is kept as the set of its keys                                      *)
DownloadInfoDatabaseInit ==
    [filepath_to_id |-> <<>>, next_id_to_allocate |-> 0 - 1, id_to_download_info |-> {}]

(* Database.create_all on a new file: four empty tables *)
DatabaseInit == [Tracks |-> {}, Albums |-> {}, Artwork |-> {}, Genres |-> {}]

----------------------------------------------------------------------------
(* Values *)

None == <<>>
Some(x) == <<x>>

(* The catalog holds tracks 1, 2 and 3; the file of track 3 is not on disk *)
TrackIds == {1, 2, 3}
UnknownId == Cardinality(TrackIds) + 1
MissingFiles == {3}
isfile(t) == t \notin MissingFiles

STOPPED == "stopped"
PLAYING == "playing"
PAUSED == "paused"

(* Python list indexing: q[k] for -len <= k < len, IndexError otherwise *)
InRange(q, k) == (0 - Len(q)) <= k /\ k < Len(q)
At(q, k) == IF k >= 0 THEN q[k + 1] ELSE q[Len(q) + k + 1]
Pop(q, k) == SubSeq(q, 1, k) \o SubSeq(q, k + 2, Len(q))

SeqsUpTo(S, n) == UNION {[1..k -> S] : k \in 0..n}

----------------------------------------------------------------------------
(* FilePlayer.  Every method is an operator from the player object p to a   *)
(* record [fp, ret, start]: the object afterwards, what the call returned   *)
(* or raised, and what it did about starting a decoder: "none", "immediate" *)
(* (started without sleeping) or "delayed" (started after time.sleep(1))    *)

Result(p, ret, start) == [fp |-> p, ret |-> ret, start |-> start]

FilePlayerInit == [queue |-> <<>>, idx |-> None, status |-> STOPPED, player |-> FALSE]

_stop_player(p) == [p EXCEPT !.player = FALSE]

stop(p) == [p EXCEPT !.player = FALSE, !.status = STOPPED, !.idx = None]

clear_queue(p) == [stop(p) EXCEPT !.queue = <<>>, !.idx = None]

pause(p) == [p EXCEPT !.status = PAUSED]

resume(p) == [p EXCEPT !.status = PLAYING]

(* The second half of _play_song: the file exists and the sleep is over *)
StartDecoder(p) == [p EXCEPT !.player = TRUE, !.status = PLAYING]

(* A loop that gives up at the first missing file instead of moving on *)
PlayLoopNoSkip(p, index) ==
    IF 0 <= index /\ index < Len(p.queue) /\ isfile(p.queue[index + 1])
    THEN Result([StartDecoder(_stop_player(p)) EXCEPT !.idx = Some(index)],
                "True", IF p.player THEN "delayed" ELSE "immediate")
    ELSE Result(stop(p), "False", "none")

(* The loop of play_from_real_queue_index around _play_song *)
RECURSIVE PlayLoop(_, _)
PlayLoop(p, index) ==
    IF 0 <= index /\ index < Len(p.queue)
    THEN IF isfile(p.queue[index + 1])
         THEN Result([StartDecoder(_stop_player(p)) EXCEPT !.idx = Some(index)],
                     "True", IF p.player THEN "delayed" ELSE "immediate")
         ELSE PlayLoop(_stop_player(p), index + 1)
    ELSE Result(stop(p), "False", "none")

(* The pre-flight sanity check of play_from_real_queue_index *)
SanityCheck(q, index, t) ==
    IF 0 <= index /\ index < Len(q) /\ q[index + 1] = t
    THEN [res |-> "ok", index |-> index]
    ELSE IF index > 0 /\ ~InRange(q, index - 1)
    THEN [res |-> "IndexError", index |-> index]
    ELSE IF index > 0 /\ At(q, index - 1) = t
    THEN [res |-> "ok", index |-> index - 1]
    ELSE IF index < Len(q) - 1 /\ ~InRange(q, index + 1)
    THEN [res |-> "IndexError", index |-> index]
    ELSE IF index < Len(q) - 1 /\ At(q, index + 1) = t
    THEN [res |-> "ok", index |-> index + 1]
    ELSE [res |-> "fail", index |-> index]

play_from_real_queue_index(p, index, trackid) ==
    IF trackid = None
    THEN PlayLoop(p, index)
    ELSE LET chk == SanityCheck(p.queue, index, trackid[1])
         IN  CASE chk.res = "ok" -> PlayLoop(p, chk.index)
               [] chk.res = "fail" -> Result(p, "False", "none")
               [] OTHER -> Result(p, "IndexError", "none")

play_from_apparent_queue_index(p, index, trackid) ==
    play_from_real_queue_index(p, IF p.idx = None THEN index ELSE index + p.idx[1], trackid)

(* An item of new_queue that is None: what get_download_info returns for   *)
(* an id it does not hold.  No track and no download has the id 0          *)
NoneItem == 0

FirstNone(new_queue) ==
    CHOOSE i \in 1..Len(new_queue) :
        new_queue[i] = NoneItem /\ \A j \in 1..(i - 1) : new_queue[j] # NoneItem

(* set_queue(new_queue, identifier).  The loop empties self.queue and       *)
(* appends item by item; item.Filepath of a None raises AttributeError      *)
(* there, with the items before it appended and the index not yet reset     *)
set_queue(p, new_queue) ==
    IF new_queue # <<>>
    THEN IF p.idx # None /\ ~InRange(p.queue, p.idx[1])
         THEN Result(p, "IndexError", "none")
         ELSE IF \E i \in 1..Len(new_queue) : new_queue[i] = NoneItem
         THEN Result([p EXCEPT !.queue = SubSeq(new_queue, 1, FirstNone(new_queue) - 1)],
                     "AttributeError", "none")
         ELSE LET currently_playing == IF p.idx = None THEN None ELSE Some(p.queue[p.idx[1] + 1])
                  q == [p EXCEPT !.queue = new_queue, !.idx = Some(0)]
              IN  IF currently_playing = None \/ currently_playing[1] # new_queue[1]
                  THEN [PlayLoop(q, 0) EXCEPT !.ret = "None"]
                  ELSE Result(q, "None", "none")
    ELSE Result(clear_queue(p), "None", "none")

(* set_queue(new_queue, identifier, start_playing=...): the method takes no *)
(* such parameter, so the call raises before the body runs                  *)
set_queue_start_playing(p, new_queue, start_playing) == Result(p, "TypeError", "none")

add_to_queue(p, t) ==
    LET q == [p EXCEPT !.queue = Append(p.queue, t)]
    IN  IF q.idx = None
        THEN [PlayLoop(q, 0) EXCEPT !.ret = "None"]
        ELSE Result(q, "None", "none")

(* A removal that takes its index as a real index *)
remove_from_queue_real(p, index, trackid) ==
    IF 0 <= index /\ index < Len(p.queue) /\ p.queue[index + 1] = trackid
    THEN LET q == [p EXCEPT !.queue = Pop(p.queue, index)]
         IN  IF q.idx = Some(index)
             THEN [PlayLoop(q, index) EXCEPT !.ret = "True"]
             ELSE Result(q, "True", "none")
    ELSE Result(p, "False", "none")

remove_from_queue(p, index0, trackid) ==
    LET index == IF p.idx = None THEN index0 ELSE index0 + p.idx[1]
    IN  IF 0 <= index /\ index < Len(p.queue) /\ p.queue[index + 1] = trackid
        THEN LET q == [p EXCEPT !.queue = Pop(p.queue, index)]
             IN  IF q.idx = Some(index)
                 THEN [PlayLoop(q, index) EXCEPT !.ret = "True"]
                 ELSE Result(q, "True", "none")
        ELSE Result(p, "False", "none")

(* A next that stops at the end of the queue and keeps the queue *)
next_keeping_queue(p) ==
    IF p.idx = None
    THEN Result(p, "None", "none")
    ELSE IF p.idx[1] + 1 < Len(p.queue)
         THEN [PlayLoop(p, p.idx[1] + 1) EXCEPT !.ret = "None"]
         ELSE Result(stop(p), "None", "none")

next(p) ==
    IF p.idx = None
    THEN Result(p, "None", "none")
    ELSE IF p.idx[1] + 1 < Len(p.queue)
         THEN [PlayLoop(p, p.idx[1] + 1) EXCEPT !.ret = "None"]
         ELSE Result(clear_queue(stop(p)), "None", "none")

prev(p) ==
    IF p.idx = None
    THEN Result(p, "TypeError", "none")
    ELSE [PlayLoop(p, IF p.idx[1] - 1 > 0 THEN p.idx[1] - 1 ELSE 0) EXCEPT !.ret = "None"]

on_music_end(p) == next(p)

----------------------------------------------------------------------------
(* The FilePlayer on its own, driven method by method as test_player.py does *)

sysvars == <<current, sp, workq, worker, cb, last>>

Indexes == (0 - 2)..(MaxPlayerQueue + 1)
OptTrack == {None} \cup {Some(t) : t \in TrackIds}

Called(op, r) ==
    /\ fp' = r.fp
    /\ call' = [op |-> op, index |-> None, ret |-> r.ret]
    /\ UNCHANGED sysvars
    /\ UNCHANGED aux

CalledAt(op, i, r) ==
    /\ fp' = r.fp
    /\ call' = [op |-> op, index |-> Some(i), ret |-> r.ret]
    /\ UNCHANGED sysvars
    /\ UNCHANGED aux

CallSetQueue(q) == Called("set_queue", set_queue(fp, q))

CallSetQueueStartPlaying(q, b) == Called("set_queue_start_playing", set_queue_start_playing(fp, q, b))

CallAddToQueue(t) ==
    /\ Len(fp.queue) < MaxPlayerQueue
    /\ Called("add_to_queue", add_to_queue(fp, t))

CallRemoveFromQueue(i, t) == CalledAt("remove_from_queue", i, remove_from_queue(fp, i, t))

CallPlayFromReal(i, t) ==
    CalledAt("play_from_real_queue_index", i, play_from_real_queue_index(fp, i, t))

CallPlayFromApparent(i, t) ==
    Called("play_from_apparent_queue_index", play_from_apparent_queue_index(fp, i, t))

CallNext == Called("next", next(fp))

CallPrev == Called("prev", prev(fp))

CallPause == Called("pause", Result(pause(fp), "None", "none"))

CallResume == Called("resume", Result(resume(fp), "None", "none"))

CallStop == Called("stop", Result(stop(fp), "None", "none"))

(* The decoder held by the player reaches the end of its file *)
CallOnMusicEnd ==
    /\ fp.player /\ fp.status = PLAYING
    /\ Called("on_music_end", on_music_end(fp))

----------------------------------------------------------------------------
(* The catalog the routes resolve ids in *)

AlbumIds == {1}
PlaylistIds == {1}
StationIds == 1..MaxStation

(* Album 1 holds the three tracks: track 2 is disk 1 track 1, track 1 is   *)
(* disk 1 track 2, track 3 is disk 2 track 1.  Playlist 1 is <<3, 1>>.     *)
VolumeNumber(t) == IF t = 3 THEN 2 ELSE 1
TrackNumber(t) == IF t = 1 THEN 2 ELSE 1
AlbumTracks(a) == <<1, 2, 3>>
PlaylistEntries(pl) == <<3, 1>>

track_sort_order(t) == <<VolumeNumber(t), TrackNumber(t)>>
KeyLess(a, b) == a[1] < b[1] \/ (a[1] = b[1] /\ a[2] < b[2])

(* sorted(seq, key=track_sort_order): a stable insertion sort *)
RECURSIVE sorted(_)
sorted(s) ==
    IF s = <<>> THEN <<>>
    ELSE LET rest == sorted(SubSeq(s, 1, Len(s) - 1))
             x == s[Len(s)]
             k == Cardinality({i \in 1..Len(rest) :
                                 ~KeyLess(track_sort_order(x), track_sort_order(rest[i]))})
         IN  SubSeq(rest, 1, k) \o <<x>> \o SubSeq(rest, k + 1, Len(rest))

Filter(s, Keep(_)) ==
    LET F[i \in 0..Len(s)] ==
            IF i = 0 THEN <<>>
            ELSE IF Keep(s[i]) THEN Append(F[i - 1], s[i]) ELSE F[i - 1]
    IN  F[Len(s)]

IndexOf(s, x) == CHOOSE i \in 1..Len(s) : s[i] = x /\ \A j \in 1..(i - 1) : s[j] # x
Contains(s, x) == \E i \in 1..Len(s) : s[i] = x

----------------------------------------------------------------------------
(* StreamPlayer: status and the station being played (currently_playing_name) *)

stream_play(s, station) == [status |-> PLAYING, name |-> Some(station)]
stream_pause(s) == [s EXCEPT !.status = PAUSED]
stream_resume(s) == IF s.name # None THEN [s EXCEPT !.status = PLAYING] ELSE s
stream_stop(s) == [status |-> STOPPED, name |-> None]

----------------------------------------------------------------------------
(* The coordinator.  a is the application object [current, fp, sp]; every   *)
(* operator returns a record [app, status, was, start]: the application     *)
(* afterwards, the HTTP status of the response, whether a select_player     *)
(* call returned True, and whether a decoder was sent a start command and   *)
(* how long after the select ("none", "immediate", "delayed": at least one  *)
(* second of time.sleep lay between them)                                   *)

App == [current |-> current, fp |-> fp, sp |-> sp]

StatusOf(a, who) == IF who = "file" THEN a.fp.status ELSE a.sp.status

select_player(a, desired) ==
    IF a.current # desired
    THEN [app |-> [a EXCEPT !.current = desired,
                            !.fp = IF a.current = "file" THEN pause(a.fp) ELSE a.fp,
                            !.sp = IF a.current = "stream" THEN stream_pause(a.sp) ELSE a.sp],
          was |-> StatusOf(a, a.current) = PLAYING]
    ELSE [app |-> a, was |-> FALSE]

Outcome(a, status, sel, was, start) ==
    [app |-> a, status |-> status, sel |-> sel, was |-> was, start |-> start, work |-> None]

Later(x, y) == IF y = "none" THEN x ELSE y

WithFp(a, p) == [a EXCEPT !.fp = p]

(* playerctrl.py *)

update_player_play_track_list(a, tracks, start_at_track_id, was) ==
    IF start_at_track_id # None /\ ~Contains(tracks, start_at_track_id[1])
    THEN Outcome(a, 400, Some("file"), was, "none")
    ELSE LET play_from_index == IF start_at_track_id = None THEN 0
                                ELSE IndexOf(tracks, start_at_track_id[1]) - 1
             s1 == select_player(a, "file")
             r1 == set_queue_start_playing(s1.app.fp, tracks, FALSE)
             r2 == play_from_real_queue_index(r1.fp, play_from_index, None)
         IN  IF r1.ret = "TypeError"
             THEN Outcome(WithFp(s1.app, r1.fp), 500, Some("file"), was \/ s1.was, r1.start)
             ELSE Outcome(WithFp(s1.app, r2.fp), 204, Some("file"), was \/ s1.was,
                          Later(r1.start, r2.start))

update_player_play_album(a, albumid, trackid, disk_nr, was) ==
    IF albumid \notin AlbumIds
    THEN Outcome(a, 404, Some("file"), was, "none")
    ELSE LET all == sorted(AlbumTracks(albumid))
             OnDisk(t) == VolumeNumber(t) = disk_nr[1]
             tracks == IF disk_nr # None THEN Filter(all, OnDisk) ELSE all
         IN  update_player_play_track_list(a, tracks, trackid, was)

update_player_play_playlist(a, playlistid, trackid, was) ==
    IF playlistid \notin PlaylistIds
    THEN Outcome(a, 404, Some("file"), was, "none")
    ELSE update_player_play_track_list(a, PlaylistEntries(playlistid), trackid, was)

update_player_play_from_queue(a, queue_pos, trackid, was) ==
    LET r == play_from_apparent_queue_index(a.fp, queue_pos, trackid)
    IN  Outcome(WithFp(a, r.fp),
                CASE r.ret = "True" -> 204 [] r.ret = "False" -> 409 [] OTHER -> 500,
                Some("file"), was, r.start)

update_player_play_track(a, trackid, was) ==
    IF trackid \notin TrackIds
    THEN Outcome(a, 404, Some("file"), was, "none")
    ELSE LET r == add_to_queue(clear_queue(a.fp), trackid)
         IN  Outcome(WithFp(a, r.fp), 204, Some("file"), was, r.start)

truthy(x) == x # None /\ x[1] # 0

update_player_play_from_local(a, req) ==
    LET s1 == select_player(a, "file")
    IN  IF req.album # None
        THEN update_player_play_album(s1.app, req.album[1], req.track, req.disk, s1.was)
        ELSE IF req.playlist # None
        THEN update_player_play_playlist(s1.app, req.playlist[1], req.track, s1.was)
        ELSE IF req.queuepos # None
        THEN update_player_play_from_queue(s1.app, req.queuepos[1], req.track, s1.was)
        ELSE IF truthy(req.track)
        THEN update_player_play_track(s1.app, req.track[1], s1.was)
        ELSE Outcome(s1.app, 500, Some("file"), s1.was, "none")

update_player_play_from_radio(a, stationid) ==
    IF stationid \notin StationIds
    THEN Outcome(a, 404, None, FALSE, "none")
    ELSE LET s1 == select_player(a, "stream")
         IN  Outcome([s1.app EXCEPT !.sp = stream_play(s1.app.sp, stationid)],
                     204, Some("stream"), s1.was, "immediate")

update_player_play_from_youtube(a, url) ==
    [Outcome(a, 204, None, FALSE, "none") EXCEPT !.work = Some("play_downloaded_files")]

update_player_streaming_prevnext(a, delta) ==
    IF a.sp.name # None /\ (a.sp.name[1] + delta) \in StationIds
    THEN Outcome([a EXCEPT !.sp = stream_play(a.sp, a.sp.name[1] + delta)],
                 204, None, FALSE, "immediate")
    ELSE Outcome(a, 204, None, FALSE, "none")

(* routes.py: /player/ *)

(* The checks of update_player_play that raise BadRequest *)
PlayRequestRejected(req) ==
    LET anyLocal == truthy(req.album) \/ truthy(req.playlist) \/ truthy(req.queuepos)
                        \/ truthy(req.track)
        exclusive == <<req.album, req.playlist, req.queuepos>>
    IN  \/ ~(anyLocal \/ truthy(req.radio) \/ req.url # None)
        \/ Cardinality({i \in 1..3 : exclusive[i] # None}) > 1
        \/ truthy(req.radio) /\ (anyLocal \/ req.url # None)
        \/ req.url # None /\ (anyLocal \/ truthy(req.radio))

update_player_play(a, req) ==
    IF PlayRequestRejected(req)
    THEN Outcome(a, 400, None, FALSE, "none")
    ELSE IF req.url # None
    THEN update_player_play_from_youtube(a, req.url[1])
    ELSE IF truthy(req.radio)
    THEN update_player_play_from_radio(a, req.radio[1])
    ELSE update_player_play_from_local(a, req)

update_player_next(a) ==
    IF a.current = "file"
    THEN LET r == next(a.fp) IN Outcome(WithFp(a, r.fp), 204, None, FALSE, r.start)
    ELSE update_player_streaming_prevnext(a, 1)

update_player_prev(a) ==
    IF a.current = "file"
    THEN LET r == prev(a.fp)
         IN  Outcome(WithFp(a, r.fp), IF r.ret = "TypeError" THEN 500 ELSE 204, None, FALSE, r.start)
    ELSE update_player_streaming_prevnext(a, 0 - 1)

update_player_pause(a) ==
    Outcome(IF a.current = "file" THEN WithFp(a, pause(a.fp))
            ELSE [a EXCEPT !.sp = stream_pause(a.sp)], 204, None, FALSE, "none")

update_player_stop(a) ==
    Outcome(IF a.current = "file" THEN WithFp(a, stop(a.fp))
            ELSE [a EXCEPT !.sp = stream_stop(a.sp)], 204, None, FALSE, "none")

(* player_type: None when the request has no body, else the body's player key *)
update_player_resume(a, player_type) ==
    IF player_type # None /\ player_type[1] \notin {"radio", "local"}
    THEN Outcome(a, 400, None, FALSE, "none")
    ELSE LET desired == IF player_type = None THEN a.current
                        ELSE IF player_type[1] = "radio" THEN "stream" ELSE "file"
             s1 == IF player_type = None THEN [app |-> a, was |-> FALSE]
                   ELSE select_player(a, desired)
             b == s1.app
             sent == IF b.current = "file" THEN b.fp.player ELSE b.sp.name # None
         IN  Outcome(IF b.current = "file" THEN WithFp(b, resume(b.fp))
                     ELSE [b EXCEPT !.sp = stream_resume(b.sp)],
                     204, IF player_type = None THEN None ELSE Some(desired), s1.was,
                     IF ~sent THEN "none" ELSE IF s1.was THEN "delayed" ELSE "immediate")

(* routes.py: /queue/ *)

(* A DELETE /queue/ that does not look at which player is current *)
queue_delete_any_player(a, index, trackid) ==
    LET r == remove_from_queue(a.fp, index, trackid)
    IN  Outcome(WithFp(a, r.fp), IF r.ret = "True" THEN 204 ELSE 400, None, FALSE, r.start)

queue_delete(a, index, trackid) ==
    IF a.current # "file"
    THEN Outcome(a, 409, None, FALSE, "none")
    ELSE LET r == remove_from_queue(a.fp, index, trackid)
         IN  Outcome(WithFp(a, r.fp), IF r.ret = "True" THEN 204 ELSE 400, None, FALSE, r.start)

queue_get(a) ==
    IF a.current # "file"
    THEN Outcome(a, 409, None, FALSE, "none")
    ELSE Outcome(a, 200, None, FALSE, "none")

queue_options(a) ==
    IF a.current # "file"
    THEN Outcome(a, 409, None, FALSE, "none")
    ELSE Outcome(a, 204, None, FALSE, "none")

RECURSIVE AddAll(_, _, _)
AddAll(p, tracks, start) ==
    IF tracks = <<>> THEN Result(p, "None", start)
    ELSE LET r == add_to_queue(p, Head(tracks))
         IN  AddAll(r.fp, Tail(tracks), Later(start, r.start))

queue_put_album(a, albumid, disknr) ==
    IF albumid \notin AlbumIds
    THEN Outcome(a, 404, None, FALSE, "none")
    ELSE LET OnDisk(t) == VolumeNumber(t) = disknr
             r == AddAll(a.fp, sorted(Filter(AlbumTracks(albumid), OnDisk)), "none")
         IN  Outcome(WithFp(a, r.fp), 204, None, FALSE, r.start)

queue_put_track(a, trackid) ==
    IF trackid \notin TrackIds
    THEN Outcome(a, 404, None, FALSE, "none")
    ELSE LET r == add_to_queue(a.fp, trackid)
         IN  Outcome(WithFp(a, r.fp), 204, None, FALSE, r.start)

queue_put_youtube(a, url) ==
    [Outcome(a, 204, None, FALSE, "none") EXCEPT !.work = Some("queue_downloaded_files")]

(* An id >= 0 goes to db.get_track_by_id, which raises NotFoundException;   *)
(* an id < 0 goes to get_download_info, which returns None for an id it     *)
(* does not hold                                                            *)
queue_put_reorder(a, new_queue_order) ==
    IF \E i \in 1..Len(new_queue_order) :
            new_queue_order[i] >= 0 /\ new_queue_order[i] \notin TrackIds
    THEN Outcome(a, 404, None, FALSE, "none")
    ELSE LET new_queue == [i \in 1..Len(new_queue_order) |->
                             IF new_queue_order[i] >= 0
                                    \/ new_queue_order[i] \in dl.id_to_download_info
                             THEN new_queue_order[i] ELSE NoneItem]
             r == set_queue(a.fp, new_queue)
         IN  Outcome(WithFp(a, r.fp),
                     IF r.ret \in {"IndexError", "AttributeError"} THEN 500 ELSE 204,
                     None, FALSE, r.start)

queue_put(a, data) ==
    IF a.current # "file"
    THEN Outcome(a, 409, None, FALSE, "none")
    ELSE IF truthy(data.album) /\ truthy(data.disk)
    THEN queue_put_album(a, data.album[1], data.disk[1])
    ELSE IF truthy(data.track)
    THEN queue_put_track(a, data.track[1])
    ELSE IF data.url # None
    THEN queue_put_youtube(a, data.url[1])
    ELSE IF data.queue # <<>>
    THEN queue_put_reorder(a, data.queue)
    ELSE Outcome(a, 400, None, FALSE, "none")

----------------------------------------------------------------------------
(* The requests the model sends *)

Opt(S) == {None} \cup {Some(x) : x \in S}

Req(al, pl, qp, tr, ra, ur, di) ==
    [album |-> al, playlist |-> pl, queuepos |-> qp, track |-> tr, radio |-> ra,
     url |-> ur, disk |-> di]

(* every combination of the six selectors, with ids 0 and 1 (and track 2) *)
AllPlayRequests ==
    [album : Opt({0, 1}), playlist : Opt({0, 1}), queuepos : Opt({0, 1}),
     track : Opt({0, 1, 2}), radio : Opt({0, 1}), url : Opt({"u"}), disk : {None}]

PlayRequests ==
    {Req(Some(al), None, None, tr, None, None, di) :
        al \in {1, 2}, tr \in Opt({1, UnknownId}), di \in Opt({1})}
    \cup {Req(None, Some(1), None, tr, None, None, None) : tr \in Opt({2})}
    \cup {Req(None, None, Some(q), tr, None, None, None) :
            q \in (0 - 1)..MaxQueue, tr \in Opt({1, 2})}
    \cup {Req(None, None, None, Some(t), None, None, None) : t \in {1, 3, UnknownId}}
    \cup {Req(None, None, None, None, Some(r), None, None) : r \in 1..(MaxStation + 1)}
    \cup {Req(None, None, None, None, None, Some("u"), None),
          Req(None, None, None, None, None, None, None),
          Req(Some(1), None, None, None, Some(1), None, None)}

Put(al, di, tr, ur, qu) == [album |-> al, disk |-> di, track |-> tr, url |-> ur, queue |-> qu]

QueuePutRequests ==
    {Put(Some(al), Some(1), None, None, <<>>) : al \in {1, 2}}
    \cup {Put(None, None, Some(t), None, <<>>) : t \in TrackIds \cup {UnknownId}}
    \cup {Put(None, None, None, None, q) : q \in SeqsUpTo(TrackIds \cup {UnknownId}, MaxSetLen)}
    \cup {Put(None, None, None, Some("u"), <<>>)}

----------------------------------------------------------------------------
(* Steps of the running server: one per HTTP request, worker job and        *)
(* decoder callback                                                         *)

Respond(op, o) ==
    /\ Len(workq) < (IF o.work = None THEN MaxWorkQueue + 1 ELSE MaxWorkQueue)
    /\ Len(o.app.fp.queue) <= MaxQueue
    /\ current' = o.app.current
    /\ fp' = o.app.fp
    /\ sp' = o.app.sp
    /\ workq' = IF o.work = None THEN workq ELSE Append(workq, o.work[1])
    /\ last' = o.status
    /\ UNCHANGED <<call, worker, cb>>
    /\ UNCHANGED aux

Background(op) ==
    last' = 0

PlayerPlay(req) == Respond("update_player_play", update_player_play(App, req))

PlayerNext == Respond("update_player_next", update_player_next(App))

PlayerPrev == Respond("update_player_prev", update_player_prev(App))

PlayerPause == Respond("update_player_pause", update_player_pause(App))

PlayerStop == Respond("update_player_stop", update_player_stop(App))

PlayerResume(player_type) == Respond("update_player_resume", update_player_resume(App, player_type))

QueueDelete(index, trackid) == Respond("queue_delete", queue_delete(App, index, trackid))

QueueGet == Respond("queue_get", queue_get(App))

QueueOptions == Respond("queue_options", queue_options(App))

QueuePut(data) == Respond("queue_put", queue_put(App, data))

(* The decoder reaches the end of its file and its thread runs on_music_end. *)
(* When the next file exists, _play_song has stopped the old decoder and is  *)
(* inside time.sleep(1): the thread is parked there with its local index     *)
EndOfSongBegin ==
    /\ cb = None
    /\ fp.player /\ fp.status = PLAYING
    /\ IF fp.idx # None /\ fp.idx[1] + 1 < Len(fp.queue) /\ isfile(fp.queue[fp.idx[1] + 2])
       THEN fp' = _stop_player(fp) /\ cb' = Some(fp.idx[1] + 1)
       ELSE fp' = on_music_end(fp).fp /\ cb' = None
    /\ Background("on_music_end")
    /\ UNCHANGED <<call, current, sp, workq, worker>>
    /\ UNCHANGED aux

(* The sleep is over: _play_song starts the decoder on the file it chose and *)
(* play_from_real_queue_index stores its local index                         *)
EndOfSongWake ==
    /\ cb # None
    /\ fp' = [StartDecoder(fp) EXCEPT !.idx = cb]
    /\ cb' = None
    /\ Background("on_music_end")
    /\ UNCHANGED <<call, current, sp, workq, worker>>
    /\ UNCHANGED aux

(* WorkerThread.run takes a FETCH_FROM_YOUTUBE request and, after the fetch, *)
(* calls callback(self.app, download_info); both callbacks take (app, url,   *)
(* download_info), so the call raises TypeError and ends the thread          *)
WorkerRun ==
    /\ worker = "alive"
    /\ workq # <<>>
    /\ workq' = Tail(workq)
    /\ worker' = "dead"
    /\ Background("worker")
    /\ UNCHANGED <<fp, call, current, sp, cb>>
    /\ UNCHANGED aux

(* Everything but the catalog and the disk, as the constructors leave it *)
InitServer ==
    /\ fp = FilePlayerInit
    /\ call = [op |-> "init", index |-> None, ret |-> "None"]
    /\ current = "file"
    /\ sp = [status |-> STOPPED, name |-> None]
    /\ workq = <<>>
    /\ worker = "alive"
    /\ cb = None
    /\ last = 0
    /\ rm = <<>>
    /\ popped = None
    /\ volume = 100
    /\ enq = <<>>
    /\ ran = <<>>
    /\ fin = <<>>
    /\ job = None
    /\ wstatus = "Idle"
    /\ tidy = FALSE
    /\ clients = <<>>
    /\ conn = {}
    /\ closed = {}
    /\ got = [c \in Clients |-> 0 - 1]
    /\ top = [c \in Clients |-> 0 - 1]
    /\ upds = <<>>
    /\ ver = 0
    /\ stream = StreamPlayerInit
    /\ poll = NowPlayingUpdaterInit
    /\ dl = DownloadInfoDatabaseInit
    /\ history = <<>>
    /\ dec = [made |-> 0, ended |-> {}]

(* A server started on a new database file *)
Init ==
    /\ InitServer
    /\ db = DatabaseInit
    /\ files = {}
    /\ res = [op |-> "init", ret |-> "None"]

(* Calls on a FilePlayer that replace its whole queue, as playerctrl.py and *)
(* the tests make them                                                      *)
NextSetQueue ==
    \/ \E q \in SeqsUpTo(TrackIds, MaxSetLen) : CallSetQueue(q)
    \/ \E q \in SeqsUpTo(TrackIds, MaxSetLen), b \in BOOLEAN : CallSetQueueStartPlaying(q, b)
    \/ \E t \in TrackIds : CallAddToQueue(t)
    \/ CallNext
    \/ CallPause
    \/ CallStop

SpecSetQueue == Init /\ [][NextSetQueue]_vars

(* Calls that start playback at a queue position *)
NextPlayFromIndex ==
    \/ \E t \in TrackIds : CallAddToQueue(t)
    \/ \E i \in Indexes, t \in OptTrack : CallPlayFromReal(i, t)
    \/ \E i \in Indexes, t \in OptTrack : CallPlayFromApparent(i, t)
    \/ CallNext
    \/ CallPause
    \/ CallStop

SpecPlayFromIndex == Init /\ [][NextPlayFromIndex]_vars

(* Calls that remove from a queue built item by item, between the transport *)
(* calls and the decoder's end-of-song callback                             *)
NextRemoveFromQueue ==
    \/ \E t \in TrackIds : CallAddToQueue(t)
    \/ \E i \in Indexes, t \in TrackIds : CallRemoveFromQueue(i, t)
    \/ CallNext
    \/ CallPrev
    \/ CallPause
    \/ CallResume
    \/ CallStop
    \/ CallOnMusicEnd

SpecRemoveFromQueue == Init /\ [][NextRemoveFromQueue]_vars

HttpRequest ==
    \/ \E req \in PlayRequests : PlayerPlay(req)
    \/ PlayerNext
    \/ PlayerPrev
    \/ PlayerPause
    \/ PlayerStop
    \/ \E pt \in Opt({"radio", "local", "other"}) : PlayerResume(pt)
    \/ \E i \in (0 - 1)..MaxQueue, t \in TrackIds : QueueDelete(i, t)
    \/ QueueGet
    \/ QueueOptions
    \/ \E data \in QueuePutRequests : QueuePut(data)

Next ==
    \/ HttpRequest
    \/ EndOfSongBegin
    \/ EndOfSongWake
    \/ WorkerRun

Spec == Init /\ [][Next]_vars

(* The HTTP requests alone, handled one at a time *)
SpecRoutes == Init /\ [][HttpRequest]_vars

(* POST /player/play alone, over every combination of selectors *)
(* One PUT /queue/ body of each kind the handler tells apart *)
QueuePutKinds ==
    {Put(Some(1), Some(1), None, None, <<>>),
     Put(None, None, Some(2), None, <<>>),
     Put(None, None, Some(3), None, <<>>),
     Put(None, None, None, Some("u"), <<>>),
     Put(None, None, None, None, <<2, 1>>),
     Put(None, None, None, None, <<>>)}

RadioRequests == {Req(None, None, None, None, Some(r), None, None) : r \in StationIds}

(* The /queue/ routes, between the requests that switch players *)
NextQueueRoutes ==
    \/ QueueGet
    \/ QueueOptions
    \/ \E data \in QueuePutKinds : QueuePut(data)
    \/ \E i \in (0 - 1)..MaxQueue, t \in TrackIds : QueueDelete(i, t)
    \/ \E req \in RadioRequests : PlayerPlay(req)
    \/ \E pt \in {"radio", "local"} : PlayerResume(Some(pt))
    \/ PlayerStop

SpecQueueRoutes == Init /\ [][NextQueueRoutes]_vars

NextPlayRequest == \E req \in AllPlayRequests : PlayerPlay(req)

SpecPlayRequest == Init /\ [][NextPlayRequest]_vars

----------------------------------------------------------------------------
(* Properties of the FilePlayer, checked under SpecFilePlayer *)

(* The real indexes at or after i whose file exists, and the first of them *)
Playable(q, i) == {j \in 0..(Len(q) - 1) : j >= i /\ isfile(q[j + 1])}
FirstPlayable(q, i) == CHOOSE j \in Playable(q, i) : \A k \in Playable(q, i) : j <= k

PlaysIndex(j) ==
    fp'.idx = Some(j) /\ fp'.status = PLAYING /\ fp'.player /\ fp'.queue = fp.queue

EndsStopped ==
    fp'.idx = None /\ fp'.status = STOPPED /\ ~fp'.player /\ fp'.queue = fp.queue

HasTrack(q, k, t) == 0 <= k /\ k < Len(q) /\ q[k + 1] = t

(* C8: play_from_real_queue_index(i, trackid) plays index i when queue[i]    *)
(* has the trackid, otherwise index i-1 or i+1 when that neighbour has it;   *)
(* when none of the three positions holds the trackid it returns False and   *)
(* leaves queue, current_track_index and status unchanged, for every integer *)
(* i.  (The playing part is stated for a trackid whose file exists.)         *)
C8_PlayFromRealIndexChecked ==
    [][call'.op = "play_from_real_queue_index" => \A t \in TrackIds :
        LET i == call'.index[1] IN
        CallPlayFromReal(i, Some(t)) =>
            IF HasTrack(fp.queue, i, t)
            THEN isfile(t) => PlaysIndex(i) /\ call'.ret = "True"
            ELSE IF HasTrack(fp.queue, i - 1, t) \/ HasTrack(fp.queue, i + 1, t)
            THEN isfile(t) =>
                    /\ call'.ret = "True"
                    /\ \E k \in {i - 1, i + 1} : HasTrack(fp.queue, k, t) /\ PlaysIndex(k)
            ELSE call'.ret = "False" /\ fp' = fp]_vars

(* C9: set_queue(tracks, identifier, start_playing) replaces the whole queue *)
(* with the given items; with start_playing set and a new queue[0] that is   *)
(* not the item playing, playback starts from real index 0, skipping missing *)
(* files; when the new queue[0] is the item playing, playback is not         *)
(* restarted and current_track_index becomes 0; otherwise status and decoder *)
(* are left alone.                                                           *)
C9_SetQueue ==
    [][\A q \in SeqsUpTo(TrackIds, MaxSetLen), b \in BOOLEAN :
        CallSetQueueStartPlaying(q, b) =>
            LET playing == IF fp.idx # None /\ InRange(fp.queue, fp.idx[1])
                           THEN Some(fp.queue[fp.idx[1] + 1]) ELSE None
            IN  /\ fp'.queue = q
                /\ IF q # <<>> /\ playing = Some(q[1])
                   THEN fp'.idx = Some(0) /\ fp'.status = fp.status /\ fp'.player = fp.player
                   ELSE IF b /\ q # <<>>
                   THEN IF Playable(q, 0) # {}
                        THEN fp'.idx = Some(FirstPlayable(q, 0)) /\ fp'.status = PLAYING
                        ELSE fp'.idx = None /\ fp'.status = STOPPED
                   ELSE fp'.status = fp.status /\ fp'.player = fp.player]_vars

(* The queue without the item at real index k *)
Without(q, k) == [j \in 1..(Len(q) - 1) |-> IF j <= k THEN q[j] ELSE q[j + 1]]

----------------------------------------------------------------------------
(* Properties of the coordinator and the routes *)

(* C1: in every reachable state at most one of the file player and the      *)
(* stream player has status playing, whatever the interleaving of HTTP      *)
(* requests, worker callbacks and end-of-song callbacks.                    *)
C1_AtMostOnePlaying == ~(fp.status = PLAYING /\ sp.status = PLAYING)

Desired(pt) == IF pt = "radio" THEN "stream" ELSE "file"

(* C2: select_player(desired) pauses the outgoing player only when current  *)
(* differs from desired and the outgoing player is playing, and always ends *)
(* with current = desired; an outgoing player that is stopped or paused     *)
(* keeps its status.  Stated on POST /player/resume with a preferred        *)
(* player, which selects and then touches only the player it selected.      *)
C2_SelectPlayer ==
    [][\A pt \in {"radio", "local"} :
        PlayerResume(Some(pt)) =>
            /\ current' = Desired(pt)
            /\ (current = "file" /\ Desired(pt) = "stream") =>
                    fp'.status = IF fp.status = PLAYING THEN PAUSED ELSE fp.status
            /\ (current = "stream" /\ Desired(pt) = "file") =>
                    sp'.status = IF sp.status = PLAYING THEN PAUSED ELSE sp.status]_vars

(* C3: whenever a switch of players pauses a player that was playing, at    *)
(* least one second passes before the start command to the newly selected   *)
(* player, on every path that switches: here the paths of POST /player/play *)
(* and POST /player/resume.                                                 *)
C3_DelayAfterSwitch ==
    [][/\ \A req \in PlayRequests :
            PlayerPlay(req) =>
                LET o == update_player_play(App, req)
                IN  (o.was /\ o.start # "none") => o.start = "delayed"
        /\ \A pt \in {"radio", "local"} :
            PlayerResume(Some(pt)) =>
                LET r == update_player_resume(App, Some(pt))
                IN  (r.was /\ r.start # "none") => r.start = "delayed"]_vars

Present(req) ==
    {k \in {"album", "playlist", "queuepos", "track", "url", "radio"} : req[k] # None}

(* The rule for POST /player/play as the interface states it *)
Acceptable(req) ==
    /\ Present(req) # {}
    /\ Cardinality(Present(req) \cap {"album", "playlist", "queuepos"}) <= 1
    /\ \A k \in {"radio", "url"} : k \in Present(req) => Present(req) = {k}

(* C4: POST /player/play accepts a request exactly when at least one        *)
(* selector is present, at most one of album, playlist and queuepos is, and *)
(* radio or url, when present, is the only selector; every other request is *)
(* answered 400 and changes nothing.  This holds for ids and queue          *)
(* positions of 0 too.  (An accepted request is answered 400 only for a     *)
(* start track that is not in the album or playlist it names.)              *)
C4_PlayRequestValidation ==
    [][\A req \in AllPlayRequests :
        PlayerPlay(req) =>
            IF Acceptable(req)
            THEN last' = 400 =>
                    req.track # None /\ (req.album # None \/ req.playlist # None)
            ELSE last' = 400 /\ UNCHANGED <<fp, sp, current, workq>>]_vars

(* C5: while the stream player is current, GET, PUT, DELETE and OPTIONS on  *)
(* /queue/ are answered 409 and change neither the file player's queue and  *)
(* current_track_index nor the status of either player.                     *)
C5_QueueConflict ==
    [][current = "stream" =>
        /\ (QueueGet \/ QueueOptions) =>
                last' = 409 /\ UNCHANGED <<fp, sp, current>>
        /\ \A data \in QueuePutKinds :
                QueuePut(data) => last' = 409 /\ UNCHANGED <<fp, sp, current>>
        /\ \A i \in (0 - 1)..MaxQueue, t \in TrackIds :
                QueueDelete(i, t) => last' = 409 /\ UNCHANGED <<fp, sp, current>>]_vars

(* C5 witness: a /queue/ request was just answered 409 while the stream     *)
(* player is current and playing and the file player holds a queue          *)
C5_Witness ==
    /\ last = 409 /\ current = "stream" /\ sp.status = PLAYING
    /\ fp.queue # <<>> /\ fp.idx # None

(* The list POST /player/play is to queue for an album request: the album's *)
(* tracks in (VolumeNumber, TrackNumber) order, of one disk when it names   *)
(* one                                                                      *)
OnDiskOf(req, t) == req.disk = None \/ VolumeNumber(t) = req.disk[1]
ResolvedSet(req) == {t \in TrackIds : Contains(AlbumTracks(req.album[1]), t) /\ OnDiskOf(req, t)}
InAlbumOrder(q) ==
    \A i, j \in 1..Len(q) :
        i < j => \/ VolumeNumber(q[i]) < VolumeNumber(q[j])
                 \/ VolumeNumber(q[i]) = VolumeNumber(q[j]) /\ TrackNumber(q[i]) <= TrackNumber(q[j])

(* C6: a play of an album makes the file player current, sets its queue to  *)
(* the album's tracks sorted by (VolumeNumber, TrackNumber), of the given   *)
(* disk when one is given, and starts playback at the real index of the     *)
(* start track, or at index 0 without one; a start track that is not in the *)
(* list is answered 400.                                                    *)
C6_PlayAlbum ==
    [][\A req \in PlayRequests :
        (PlayerPlay(req) /\ req.album # None /\ req.album[1] \in AlbumIds /\ req.radio = None) =>
            IF req.track # None /\ req.track[1] \notin ResolvedSet(req)
            THEN last' = 400
            ELSE /\ last' = 204
                 /\ current' = "file"
                 /\ {fp'.queue[i] : i \in 1..Len(fp'.queue)} = ResolvedSet(req)
                 /\ Len(fp'.queue) = Cardinality(ResolvedSet(req))
                 /\ InAlbumOrder(fp'.queue)
                 /\ LET from == IF req.track = None THEN 0
                                ELSE IndexOf(fp'.queue, req.track[1]) - 1
                    IN  IF Playable(fp'.queue, from) # {}
                        THEN fp'.idx = Some(FirstPlayable(fp'.queue, from)) /\ fp'.status = PLAYING
                        ELSE fp'.idx = None /\ fp'.status = STOPPED]_vars

----------------------------------------------------------------------------
(* remove_from_queue as the threads of concurrent DELETE /queue/ requests   *)
(* run it: nothing in the server serialises them, so a thread can be        *)
(* suspended between the test of line 131 and the pop of line 132           *)

MaxThreads == 2         \* DELETE /queue/ requests in flight together

(* Lines 129-131: the thread computes its real index and finds the trackid *)
(* there (a thread that does not returns False at once, as in               *)
(* remove_from_queue above)                                                 *)
RemoveTest(i, t) ==
    LET index == IF fp.idx = None THEN i ELSE i + fp.idx[1]
    IN  /\ 0 <= index /\ index < Len(fp.queue) /\ fp.queue[index + 1] = t
        /\ Len(rm) < MaxThreads
        /\ rm' = Append(rm, [index |-> index, trackid |-> t])
        /\ UNCHANGED <<fp, call, popped, volume, wkvars, later, sysvars>>

(* Lines 132-139: the k-th waiting thread pops at its index, whatever is    *)
(* there by now (IndexError when the queue has become too short), and plays *)
(* from there when that is the current index                                *)
RemovePop(k) ==
    /\ k \in 1..Len(rm)
    /\ LET r == rm[k]
           q == [fp EXCEPT !.queue = Pop(fp.queue, r.index)]
       IN  IF r.index < Len(fp.queue)
           THEN /\ fp' = IF q.idx = Some(r.index) THEN PlayLoop(q, r.index).fp ELSE q
                /\ popped' = Some(<<r.trackid, fp.queue[r.index + 1]>>)
           ELSE /\ fp' = fp
                /\ popped' = popped
    /\ rm' = [j \in 1..(Len(rm) - 1) |-> IF j < k THEN rm[j] ELSE rm[j + 1]]
    /\ UNCHANGED <<call, volume, wkvars, later, sysvars>>

NextConcurrentRemove ==
    \/ \E i \in 0..MaxQueue, t \in TrackIds : RemoveTest(i, t)
    \/ \E k \in 1..MaxThreads : RemovePop(k)
    \/ \E t \in TrackIds : Len(fp.queue) < MaxQueue /\ CallAddToQueue(t)
    \/ \E q \in SeqsUpTo(TrackIds, MaxSetLen) : CallSetQueue(q)
    \/ CallOnMusicEnd

SpecConcurrentRemove == Init /\ [][NextConcurrentRemove]_vars

(* C11: remove_from_queue never removes an item whose trackid differs from  *)
(* the trackid of the request, whatever the interleaving of the request     *)
(* with the end-of-song callback, set_queue, add_to_queue and other         *)
(* removals.                                                                *)
C11_RemovesOnlyRequested == popped # None => popped[1][1] = popped[1][2]

(* C12: add_to_queue appends the item at the end of the queue; when the     *)
(* queue was empty, playback starts at real index 0, the new item (stated   *)
(* for an item whose file exists); when the queue was not empty, also one   *)
(* left behind by stop() or by removing the last playing item, the current  *)
(* index, the decoder and the status are unchanged.                         *)
C12_AddToQueue ==
    [][call'.op = "add_to_queue" => \A t \in TrackIds :
        CallAddToQueue(t) =>
            /\ fp'.queue = Append(fp.queue, t)
            /\ IF fp.queue = <<>>
               THEN isfile(t) => fp'.idx = Some(0) /\ fp'.status = PLAYING /\ fp'.player
               ELSE fp'.idx = fp.idx /\ fp'.status = fp.status /\ fp'.player = fp.player]_vars

(* C13: next(), and the end-of-song callback, at the last real index of the *)
(* queue stops the player and clears the queue: afterwards status is        *)
(* stopped, current_track_index is None and the queue is empty; next() with *)
(* current_track_index None changes nothing.                                *)
C13_NextAtEnd ==
    [][(call'.op \in {"next", "on_music_end"} /\ (CallNext \/ CallOnMusicEnd)) =>
        /\ fp.idx = None => fp' = fp
        /\ (fp.idx # None /\ fp.idx[1] = Len(fp.queue) - 1) =>
                /\ fp'.status = STOPPED
                /\ fp'.idx = None
                /\ fp'.queue = <<>>
                /\ ~fp'.player]_vars

(* C13 witness: the end-of-song callback has just emptied the queue (only   *)
(* the branch of next() for the end of the queue does that)                 *)
C13_Witness ==
    /\ call.op = "on_music_end"
    /\ fp.queue = <<>> /\ fp.status = STOPPED /\ fp.idx = None /\ ~fp.player

----------------------------------------------------------------------------
(* The transport calls of the FilePlayer *)

Volumes == {0, 50, 100}

(* set_volume(volume): forwarded to the decoder when there is one *)
CallSetVolume(v) ==
    /\ volume' = v
    /\ call' = [op |-> "set_volume", index |-> None, ret |-> "None"]
    /\ UNCHANGED <<fp, rmvars, wkvars, later, sysvars>>

NextTransport ==
    \/ \E t \in TrackIds : Len(fp.queue) < MaxQueue /\ CallAddToQueue(t)
    \/ \E i \in 0..MaxQueue : CallPlayFromReal(i, None)
    \/ \E v \in Volumes : CallSetVolume(v)
    \/ CallPause
    \/ CallResume
    \/ CallStop
    \/ CallNext

SpecTransport == Init /\ [][NextTransport]_vars

(* C14: the status of the file player stays consistent with its decoder     *)
(* after any sequence of pause, resume, set_volume, stop and play calls:    *)
(* status is playing or paused only if there is a decoder and               *)
(* current_track_index is not None, and status is stopped exactly when      *)
(* there is no decoder.                                                     *)
C14_StatusConsistent ==
    /\ fp.status \in {PLAYING, PAUSED} => fp.player /\ fp.idx # None
    /\ fp.status = STOPPED <=> ~fp.player

----------------------------------------------------------------------------
(* The worker: the routes that put requests on app.work_queue and the loop  *)
(* of WorkerThread.run                                                      *)

MaxEnqueued == 3        \* requests put on the work queue in one behaviour

FetchCallbacks == {"play_downloaded_files", "queue_downloaded_files"}

JobStatus(request) ==
    CASE request = "SCAN_DIRECTORY" -> "Scanning"
      [] request = "DELETE_MISSING_TRACKS" -> "Deleting missing tracks"
      [] request = "DELETE_ALBUMS_WITHOUT_TRACKS" -> "Deleting albums without tracks"
      [] OTHER -> "Fetching"

put(request) ==
    /\ workq' = Append(workq, request)
    /\ enq' = Append(enq, request)

notWorker == <<fp, call, current, sp, cb, rmvars, volume, later>>

(* POST /scanner/scan: 400 unless the body names a directory *)
StartScan(isdir) ==
    /\ IF isdir
       THEN Len(enq) < MaxEnqueued /\ put("SCAN_DIRECTORY") /\ last' = 204
       ELSE last' = 400 /\ UNCHANGED <<workq, enq>>
    /\ UNCHANGED <<worker, ran, fin, job, wstatus, tidy, notWorker>>

(* POST /scanner/tidy: two puts, with nothing to keep other threads out     *)
(* between them                                                             *)
StartTidyFirst ==
    /\ ~tidy
    /\ Len(enq) + 1 < MaxEnqueued
    /\ put("DELETE_MISSING_TRACKS")
    /\ tidy' = TRUE
    /\ UNCHANGED <<worker, last, ran, fin, job, wstatus, notWorker>>

StartTidySecond ==
    /\ tidy
    /\ put("DELETE_ALBUMS_WITHOUT_TRACKS")
    /\ tidy' = FALSE
    /\ last' = 204
    /\ UNCHANGED <<worker, ran, fin, job, wstatus, notWorker>>

(* PUT /queue/ and POST /player/play with a url: FETCH_FROM_YOUTUBE with    *)
(* the callback to run after the fetch                                      *)
StartFetch(callback) ==
    /\ Len(enq) < MaxEnqueued
    /\ put(callback)
    /\ last' = 204
    /\ UNCHANGED <<worker, ran, fin, job, wstatus, tidy, notWorker>>

(* Queue.get(): the oldest request *)
get_newest(q) == [request |-> q[Len(q)], rest |-> SubSeq(q, 1, Len(q) - 1)]

get(q) == [request |-> Head(q), rest |-> Tail(q)]

(* run(): set_current_status('Idle'); request = self.work_queue.get(), then *)
(* the status of the job                                                    *)
WorkerTake ==
    /\ worker = "alive"
    /\ job = None
    /\ workq # <<>>
    /\ workq' = get(workq).rest
    /\ job' = Some(get(workq).request)
    /\ ran' = Append(ran, get(workq).request)
    /\ wstatus' = JobStatus(get(workq).request)
    /\ UNCHANGED <<worker, last, enq, fin, tidy, notWorker>>

(* A scan or a sweep returns and the loop goes round: status Idle again *)
WorkerFinish ==
    /\ worker = "alive"
    /\ job # None /\ job[1] \notin FetchCallbacks
    /\ job' = None
    /\ fin' = Append(fin, job[1])
    /\ wstatus' = "Idle"
    /\ UNCHANGED <<worker, workq, last, enq, ran, tidy, notWorker>>

(* The job raises: a scan or a sweep may (the filesystem, the database); a  *)
(* fetch always does, at callback(self.app, download_info), as both         *)
(* callbacks take (app, url, download_info).  run() catches nothing, so the *)
(* exception ends the thread                                                *)
WorkerFail ==
    /\ worker = "alive"
    /\ job # None
    /\ worker' = "dead"
    /\ UNCHANGED <<workq, last, wkvars, notWorker>>

WorkerRequest ==
    \/ \E isdir \in BOOLEAN : StartScan(isdir)
    \/ StartTidyFirst
    \/ StartTidySecond
    \/ \E callback \in FetchCallbacks : StartFetch(callback)

NextWorker == WorkerRequest \/ WorkerTake \/ WorkerFinish \/ WorkerFail

SpecWorker == Init /\ [][NextWorker]_vars

(* The scheduler runs the worker thread while it has something to do, and   *)
(* every job comes to an end, by returning or by raising                    *)
FairSpecWorker == SpecWorker /\ WF_vars(WorkerTake) /\ WF_vars(WorkerFinish \/ WorkerFail)

IsPrefix(a, b) == Len(a) <= Len(b) /\ \A i \in 1..Len(a) : a[i] = b[i]

(* C15: the worker executes requests one at a time, in exactly the order    *)
(* they were put on the queue: the requests taken so far are the first ones *)
(* put, in that order, followed on the queue by the others; all of them but *)
(* the one being executed have completed; so a SCAN_DIRECTORY put before a  *)
(* DELETE_MISSING_TRACKS completes first, and the two requests of           *)
(* POST /scanner/tidy complete in the order of their puts.                  *)
C15_WorkerFifo ==
    /\ enq = ran \o workq
    /\ IsPrefix(fin, ran)
    /\ Len(ran) = Len(fin) + (IF job = None THEN 0 ELSE 1)
    /\ job # None => job[1] = ran[Len(ran)]

(* C15 witness: a scan and then the two requests of a tidy were put, and    *)
(* all three have completed, in that order                                  *)
C15_Witness ==
    fin = <<"SCAN_DIRECTORY", "DELETE_MISSING_TRACKS", "DELETE_ALBUMS_WITHOUT_TRACKS">>

(* C16: a job that fails does not stop the worker: every job that was       *)
(* started ends with the worker back at status Idle, and every request on   *)
(* the queue is taken from it in the end.                                   *)
C16_WorkerContinues ==
    /\ (job # None) ~> (job = None /\ wstatus = "Idle")
    /\ (workq # <<>>) ~> (workq = <<>>)

----------------------------------------------------------------------------
(* The websocket feed: PijuApp.update_now_playing, the callers that reach   *)
(* it, and the /ws route.  A snapshot is represented by the number of state *)
(* changes that had happened when get_current_status() built it             *)

notWs == <<call, workq, worker, cb, rmvars, enq, ran, fin, job, tidy, stvars, dlvars, dbvars, dec>>

Max(x, y) == IF x >= y THEN x ELSE y

Updater(by, own) == [by |-> by, phase |-> "build", data |-> 0, todo |-> own]

Without1(q, k) == [j \in 1..(Len(q) - 1) |-> IF j < k THEN q[j] ELSE q[j + 1]]

Changed(n) == ver < MaxVersion /\ ver' = ver + n

Publish(by) ==
    /\ Len(upds) < MaxUpdaters
    /\ upds' = Append(upds, Updater(by, <<>>))

(* WorkerThread.set_current_status: the status, then app.update_now_playing *)
(* in the worker's own thread                                               *)
SetCurrentStatus(s) ==
    /\ \A k \in 1..Len(upds) : upds[k].by # "worker"
    /\ s # wstatus
    /\ wstatus' = s
    /\ Changed(1)
    /\ Publish("worker")
    /\ UNCHANGED <<fp, current, sp, last, volume, clients, conn, closed, got, top, notWs>>

(* POST /player/volume: set_volume of both players; StreamPlayer.set_volume *)
(* ends with send_now_playing_update                                        *)
PlayerSetVolume(v) ==
    /\ v # volume
    /\ volume' = v
    /\ last' = 204
    /\ Changed(1)
    /\ Publish("http")
    /\ UNCHANGED <<fp, current, sp, wstatus, clients, conn, closed, got, top, notWs>>

(* A /player/ route: the players afterwards; published says whether a       *)
(* method of the stream player, all of which end with                       *)
(* send_now_playing_update, was the last to change anything.  No method of  *)
(* FilePlayer calls send_now_playing_update                                 *)
Handled(o, published) ==
    /\ o.app # App \/ published
    /\ current' = o.app.current
    /\ fp' = o.app.fp
    /\ sp' = o.app.sp
    /\ last' = o.status
    /\ Changed(IF o.app # App THEN 1 ELSE 0)
    /\ IF published THEN Publish("http") ELSE UNCHANGED upds
    /\ UNCHANGED <<wstatus, volume, clients, conn, closed, got, top, notWs>>

WsPlayerPause == Handled(update_player_pause(App), current = "stream")

WsPlayerResume == Handled(update_player_resume(App, None), current = "stream" /\ sp.name # None)

WsPlayerStop == Handled(update_player_stop(App), current = "stream")

WsPlayRadio(req) == Handled(update_player_play(App, req), TRUE)

WsPlayTrack(t) ==
    /\ current = "file"
    /\ Handled(update_player_play(App, Req(None, None, None, Some(t), None, None, None)), FALSE)

(* websocket_client: append, then a snapshot for the new client alone *)
WsConnect(c) ==
    /\ c \notin conn
    /\ Len(upds) < MaxUpdaters
    /\ clients' = Append(clients, c)
    /\ conn' = conn \cup {c}
    /\ upds' = Append(upds, Updater("ws", <<c>>))
    /\ UNCHANGED <<fp, current, sp, last, wstatus, volume, closed, got, top, ver, notWs>>

(* The peer goes away; the server notices at its next send *)
WsClose(c) ==
    /\ c \in conn \ closed
    /\ closed' = closed \cup {c}
    /\ UNCHANGED <<fp, current, sp, last, wstatus, volume, clients, conn, got, top, upds, ver, notWs>>

(* data = json.dumps(get_current_status()) *)
UpdBuild(k) ==
    /\ k \in 1..Len(upds) /\ upds[k].phase = "build"
    /\ upds' = [upds EXCEPT ![k].data = ver,
                            ![k].phase = IF upds[k].by = "ws" THEN "send" ELSE "copy"]
    /\ UNCHANGED <<fp, current, sp, last, wstatus, volume, clients, conn, closed, got, top, ver, notWs>>

(* for ws in self.websocket_clients[:] *)
UpdCopy(k) ==
    /\ k \in 1..Len(upds) /\ upds[k].phase = "copy"
    /\ upds' = IF clients = <<>> THEN Without1(upds, k)
               ELSE [upds EXCEPT ![k].todo = clients, ![k].phase = "send"]
    /\ UNCHANGED <<fp, current, sp, last, wstatus, volume, clients, conn, closed, got, top, ver, notWs>>

IndexIn(q, c) == CHOOSE j \in 1..Len(q) : q[j] = c

(* ws.send(data); on ConnectionClosed update_now_playing removes the client *)
(* from the list, and websocket_client ends                                 *)
UpdSend(k) ==
    /\ k \in 1..Len(upds) /\ upds[k].phase = "send"
    /\ LET u == upds[k]
           c == Head(u.todo)
       IN  /\ IF c \in closed
              THEN /\ UNCHANGED <<got, top>>
                   /\ clients' = IF u.by # "ws" /\ (\E j \in 1..Len(clients) : clients[j] = c)
                                 THEN Without1(clients, IndexIn(clients, c))
                                 ELSE clients
              ELSE /\ got' = [got EXCEPT ![c] = u.data]
                   /\ top' = [top EXCEPT ![c] = Max(top[c], u.data)]
                   /\ clients' = clients
           /\ upds' = IF Len(u.todo) = 1 THEN Without1(upds, k)
                      ELSE [upds EXCEPT ![k].todo = Tail(u.todo)]
    /\ UNCHANGED <<fp, current, sp, last, wstatus, volume, conn, closed, ver, notWs>>

UpdaterStep == \E k \in 1..MaxUpdaters : UpdBuild(k) \/ UpdCopy(k) \/ UpdSend(k)

StateChange ==
    \/ \E s \in {"Idle", "Scanning"} : SetCurrentStatus(s)
    \/ \E v \in {50, 100} : PlayerSetVolume(v)
    \/ WsPlayerPause
    \/ WsPlayerResume
    \/ WsPlayerStop
    \/ WsPlayRadio(Req(None, None, None, None, Some(1), None, None))
    \/ WsPlayTrack(1)

NextWebsocket ==
    \/ StateChange
    \/ \E c \in Clients : WsConnect(c)
    \/ \E c \in Clients : WsClose(c)
    \/ UpdaterStep

SpecWebsocket == Init /\ [][NextWebsocket]_vars

(* Every thread inside update_now_playing or websocket_client gets to run *)
FairSpecWebsocket == SpecWebsocket /\ WF_vars(UpdaterStep)

Connected(c) == c \in conn \ closed

(* C17: every state change of the worker, of the file player and of the     *)
(* stream player results in a freshly built snapshot being sent to every    *)
(* connected websocket client: once the state has changed n times, a client *)
(* that is connected is sent a snapshot built after the n-th change (or has *)
(* closed its connection).                                                  *)
C17_EveryChangePublished ==
    \A n \in 1..MaxVersion, c \in Clients :
        (ver = n /\ Connected(c)) ~> (top[c] >= n \/ ~Connected(c))

(* C18: a websocket client receives snapshots in the order they were        *)
(* produced, also when update_now_playing runs in several threads together: *)
(* no client is sent a snapshot built from an older state after one built   *)
(* from a newer state.                                                      *)
C18_SnapshotsInOrder == [][\A c \in Clients : got'[c] >= got[c]]_vars

----------------------------------------------------------------------------
(* The StreamPlayer in full, with its NowPlayingUpdater thread.  Station s  *)
(* of the database has name s, url s and two now-playing urls; dyn is the   *)
(* station dynamic_info was built for, None for {}; proc is the url the     *)
(* ffplay child plays; next_fetch is "due" (now >= next_fetch), "later" or  *)
(* "inf"; cap is the dynamic_info the running do_all_fetches iterates over  *)

StationArt(s) == Some(<<"station", s>>)
FetchedArt(s) == Some(<<"fetched", s>>)

set_track_info(s, track_info) ==
    [s EXCEPT !.artist = track_info, !.track = track_info]

set_artwork(s, artwork_url) ==
    [s EXCEPT !.artwork = IF artwork_url # None THEN FetchedArt(artwork_url[1])
                          ELSE s.station_artwork]

(* save_results(None) for every callback of dynamic_info *)
show_not_playing(s) ==
    IF s.dyn = None THEN s ELSE set_artwork(set_track_info(s, None), None)

state_change(p, new_status) ==
    [p EXCEPT !.next_fetch = IF new_status = PLAYING THEN "due" ELSE "inf"]

StreamPlayer_play(s, station) ==
    [status |-> PLAYING, name |-> Some(station), url |-> Some(station),
     artwork |-> StationArt(station), station_artwork |-> StationArt(station),
     index |-> Some(station - 1), ntracks |-> Some(MaxStation), dyn |-> Some(station),
     artist |-> None, track |-> None, proc |-> Some(station)]

StreamPlayer_pause_keeping_artwork(s) ==
    set_track_info([s EXCEPT !.proc = None, !.status = PAUSED], None)

StreamPlayer_pause(s) ==
    show_not_playing([s EXCEPT !.proc = None, !.status = PAUSED,
                               !.artwork = s.station_artwork])

StreamPlayer_resume(s) ==
    IF s.name # None THEN [s EXCEPT !.proc = s.url, !.status = PLAYING] ELSE s

StreamPlayer_stop(s) ==
    [s EXCEPT !.proc = None, !.status = STOPPED, !.name = None, !.url = None,
              !.artwork = None, !.index = None, !.ntracks = None, !.artist = None,
              !.track = None, !.dyn = None]

notStream == <<fp, current, sp, workq, worker, cb, last, rmvars, volume, wkvars, wsvars, dlvars, dbvars, dec>>

StreamCalled(op, s, new_status) ==
    /\ stream' = s
    /\ poll' = state_change(poll, new_status)
    /\ call' = [op |-> op, index |-> None, ret |-> "None"]
    /\ UNCHANGED notStream

StreamPlay(station) == StreamCalled("StreamPlayer.play", StreamPlayer_play(stream, station), PLAYING)

StreamPause == StreamCalled("StreamPlayer.pause", StreamPlayer_pause(stream), PAUSED)

(* resume() tells the poller only when it restarts the child *)
StreamResume ==
    /\ stream' = StreamPlayer_resume(stream)
    /\ poll' = IF stream.name # None THEN state_change(poll, PLAYING) ELSE poll
    /\ call' = [op |-> "StreamPlayer.resume", index |-> None, ret |-> "None"]
    /\ UNCHANGED notStream

StreamStop == StreamCalled("StreamPlayer.stop", StreamPlayer_stop(stream), STOPPED)

(* The optional columns of the stations: station 1 has a NowPlayingUrl and  *)
(* a NowPlayingArtworkUrl, station 2 has no NowPlayingArtworkUrl, a station *)
(* after them has neither.  play() files its callbacks under the url also   *)
(* when the url is None, and fetch(None) raises requests' MissingSchema,    *)
(* which fetch does not catch and nothing above it does: the thread ends    *)
HasNowPlayingUrl(station) == station <= 2
HasNowPlayingArtworkUrl(station) == station = 1

(* NowPlayingUpdater.run: now >= self.next_fetch, and do_all_fetches starts *)
(* to iterate over the dynamic_info of this moment; with nothing to fetch   *)
(* it returns 10                                                            *)
PollWake ==
    /\ poll.pc = "sleep" /\ poll.next_fetch = "due"
    /\ poll' = IF stream.dyn = None THEN [poll EXCEPT !.next_fetch = "later"]
               ELSE [poll EXCEPT !.pc = "track", !.cap = stream.dyn]
    /\ UNCHANGED <<stream, call, notStream>>

(* fetch(url) of the track info url, then set_track_info with the data, or  *)
(* with None when the fetch failed                                          *)
PollTrack(ok) ==
    /\ poll.pc = "track"
    /\ IF HasNowPlayingUrl(poll.cap[1])
       THEN /\ stream' = set_track_info(stream, IF ok THEN poll.cap ELSE None)
            /\ poll' = [poll EXCEPT !.pc = "artwork"]
       ELSE /\ stream' = stream
            /\ poll' = [poll EXCEPT !.pc = "dead"]
    /\ UNCHANGED <<call, notStream>>

(* fetch(url) of the artwork url, then set_artwork; do_all_fetches returns  *)
(* and run() assigns self.next_fetch = now + its value                      *)
PollArtwork(ok) ==
    /\ poll.pc = "artwork"
    /\ IF HasNowPlayingArtworkUrl(poll.cap[1])
       THEN /\ stream' = set_artwork(stream, IF ok THEN poll.cap ELSE None)
            /\ poll' = [pc |-> "sleep", next_fetch |-> "later", cap |-> None]
       ELSE /\ stream' = stream
            /\ poll' = [poll EXCEPT !.pc = "dead"]
    /\ UNCHANGED <<call, notStream>>

(* time.sleep(3), as often as it takes *)
PollTick ==
    /\ poll.pc = "sleep" /\ poll.next_fetch = "later"
    /\ poll' = [poll EXCEPT !.next_fetch = "due"]
    /\ UNCHANGED <<stream, call, notStream>>

PollFetch == \E ok \in BOOLEAN : PollTrack(ok) \/ PollArtwork(ok)

NextStreamPlayer ==
    \/ \E station \in StationIds : StreamPlay(station)
    \/ StreamPause
    \/ StreamResume
    \/ StreamStop
    \/ PollWake
    \/ PollFetch
    \/ PollTick

SpecStreamPlayer == Init /\ [][NextStreamPlayer]_vars

(* C19: pause() of a playing stream player gives status paused, keeps the   *)
(* station name, the url and the track index, and resets the current        *)
(* artwork to the station artwork; resume() after it gives status playing   *)
(* with the child on the same url; stop() gives status stopped with name,   *)
(* url, artwork, track index and the now-playing fields cleared; resume()   *)
(* after stop() leaves the status stopped.  A paused player that has a name *)
(* is one that was paused after a play().                                   *)
C19_StreamProtocol ==
    [][/\ (call'.op = "StreamPlayer.pause" /\ StreamPause /\ stream.status = PLAYING) =>
            /\ stream'.status = PAUSED
            /\ stream'.name = stream.name /\ stream'.url = stream.url
            /\ stream'.index = stream.index
            /\ stream'.artwork = stream.station_artwork
       /\ (call'.op = "StreamPlayer.resume" /\ StreamResume /\ stream.status = PAUSED
                /\ stream.name # None) =>
            /\ stream'.status = PLAYING
            /\ stream'.url = stream.url /\ stream'.proc = stream.url
       /\ (call'.op = "StreamPlayer.stop" /\ StreamStop) =>
            /\ stream'.status = STOPPED
            /\ stream'.name = None /\ stream'.url = None /\ stream'.artwork = None
            /\ stream'.index = None /\ stream'.artist = None /\ stream'.track = None
       /\ (call'.op = "StreamPlayer.resume" /\ StreamResume /\ stream.status = STOPPED) =>
            stream'.status = STOPPED]_vars

(* C19 witness: a pause() has just ended on a station that was playing;    *)
(* the name is kept and the artwork is the station's                        *)
C19_Witness ==
    /\ call.op = "StreamPlayer.pause"
    /\ stream.status = PAUSED
    /\ stream.name = Some(1) /\ stream.url = Some(1) /\ stream.index = Some(0)
    /\ stream.artwork = StationArt(1)

Cleared(s) ==
    /\ s.artist = None /\ s.track = None
    /\ s.artwork = None \/ s.artwork = s.station_artwork

(* C20: once pause() or stop() has returned, and until the next play() or   *)
(* resume(), the poller performs no fetch and calls no save callback with   *)
(* fetched data, and the now-playing artist and track and the dynamic       *)
(* artwork stay cleared, also when the poller was in the middle of a fetch  *)
(* cycle at the call.                                                       *)
C20_PollerQuiet ==
    [][stream.status # PLAYING =>
            /\ ~PollFetch
            /\ stream'.status # PLAYING => Cleared(stream')]_vars

(* The poller thread is scheduled and its sleeps end *)
FairSpecStreamPlayer ==
    SpecStreamPlayer /\ WF_vars(PollWake) /\ WF_vars(PollFetch) /\ WF_vars(PollTick)

(* C21: the metadata poller never terminates and never lets an error out,   *)
(* whatever the station's optional urls and whatever a fetch gives: a       *)
(* failed fetch of the track info url calls its save callback with null,    *)
(* and while the stream stays PLAYING a fetch cycle is started again and    *)
(* again.                                                                   *)
C21_PollerNeverStops ==
    /\ [](poll.pc # "dead")
    /\ [][PollTrack(FALSE) => stream'.artist = None /\ stream'.track = None]_vars
    /\ []<>(stream.status # PLAYING \/ poll.pc = "track")

----------------------------------------------------------------------------
(* The FETCH_FROM_YOUTUBE job: fetch_audio, then the completion callback.   *)
(* download_info is the list of fake track ids of the files fetch_audio     *)
(* returned, <<>> when yt-dlp failed                                        *)

Downloads == {<<>>, <<0 - 1>>}

queue_downloaded_files(a, download_info) ==
    LET s1 == select_player(a, "file").app
    IN  WithFp(s1, AddAll(s1.fp, download_info, "none").fp)

play_downloaded_files(a, download_info) ==
    LET s1 == select_player(a, "file").app
    IN  queue_downloaded_files(WithFp(s1, clear_queue(s1.fp)), download_info)

(* The callback as a three-parameter function that is run *)
download_callback_run(callback, a, args) ==
    [app |-> IF callback = "play_downloaded_files"
             THEN play_downloaded_files(a, args[Len(args)])
             ELSE queue_downloaded_files(a, args[Len(args)]),
     raised |-> FALSE]

(* The call of a callback: both callbacks take (app, url, download_info), and a    *)
(* call with another number of arguments raises TypeError before the body   *)
download_callback(callback, a, args) ==
    IF Len(args) = 3 THEN download_callback_run(callback, a, args)
    ELSE [app |-> a, raised |-> TRUE]

(* run(), case FETCH_FROM_YOUTUBE: callback(self.app, download_info); the   *)
(* exception of the call ends the thread                                    *)
WorkerFetch(download_info) ==
    /\ worker = "alive"
    /\ workq # <<>> /\ Head(workq) \in FetchCallbacks
    /\ LET r == download_callback(Head(workq), App, <<"app", download_info>>)
       IN  /\ current' = r.app.current
           /\ fp' = r.app.fp
           /\ sp' = r.app.sp
           /\ worker' = IF r.raised THEN "dead" ELSE worker
           /\ call' = [op |-> Head(workq), index |-> Some(Len(download_info)),
                       ret |-> IF r.raised THEN "TypeError" ELSE "None"]
    /\ workq' = Tail(workq)
    /\ UNCHANGED <<cb, last>>
    /\ UNCHANGED aux

NextDownload ==
    \/ \E req \in RadioRequests : PlayerPlay(req)
    \/ \E t \in {1, 2} : PlayerPlay(Req(None, None, None, Some(t), None, None, None))
    \/ PlayerPlay(Req(None, None, None, None, None, Some("u"), None))
    \/ QueuePut(Put(None, None, None, Some("u"), <<>>))
    \/ QueuePut(Put(None, None, Some(2), None, <<>>))
    \/ PlayerPause
    \/ \E download_info \in Downloads : WorkerFetch(download_info)

SpecDownload == Init /\ [][NextDownload]_vars

----------------------------------------------------------------------------
(* The fake track id registry (downloadinfo.py).  A filepath argument is a  *)
(* str or a pathlib.Path made from a text; str(Path(text)) is the text in   *)
(* pathlib's normal form, which drops a trailing slash                      *)

Texts == {"a", "a/", "b", "b/"}

FilepathArgs == [kind : {"str", "Path"}, text : Texts]

PathToStr(text) ==
    CASE text = "a/" -> "a"
      [] text = "b/" -> "b"
      [] OTHER -> text

(* The dict key: str(filepath) for a Path, the string itself otherwise *)
KeyOf(filepath) == IF filepath.kind = "Path" THEN PathToStr(filepath.text) ELSE filepath.text

(* A registry that hands out the id it would allocate next without moving on *)
get_id_for_filepath_reusing(d, filepath) ==
    [dl |-> [d EXCEPT !.filepath_to_id = (KeyOf(filepath) :> d.next_id_to_allocate) @@ @],
     ret |-> d.next_id_to_allocate]

get_id_for_filepath(d, filepath) ==
    LET key == KeyOf(filepath)
    IN  IF key \in DOMAIN d.filepath_to_id
        THEN [dl |-> d, ret |-> d.filepath_to_id[key]]
        ELSE [dl |-> [d EXCEPT !.filepath_to_id = (key :> d.next_id_to_allocate) @@ @,
                               !.next_id_to_allocate = @ - 1],
              ret |-> d.next_id_to_allocate]

add_download_info(d, fakeid) ==
    [d EXCEPT !.id_to_download_info = @ \cup {fakeid}]

get_download_info(d, fakeid) ==
    IF fakeid \in d.id_to_download_info THEN Some(fakeid) ELSE None

notDl == <<fp, current, sp, workq, worker, cb, last, rmvars, volume, wkvars, wsvars, stvars, dbvars, dec>>

GetIdForFilepath(filepath) ==
    /\ dl' = get_id_for_filepath(dl, filepath).dl
    /\ call' = [op |-> "get_id_for_filepath",
                index |-> Some(get_id_for_filepath(dl, filepath).ret), ret |-> "None"]
    /\ UNCHANGED <<history, notDl>>

(* fetch_audio, for one file yt-dlp printed: the id of its Path, then the   *)
(* info under that id                                                       *)
FetchAudioFile(text) ==
    /\ LET r == get_id_for_filepath(dl, [kind |-> "Path", text |-> text])
       IN  /\ dl' = add_download_info(r.dl, r.ret)
           /\ call' = [op |-> "fetch_audio", index |-> Some(r.ret), ret |-> "None"]
    /\ UNCHANGED <<history, notDl>>

NextRegistry ==
    \/ \E filepath \in FilepathArgs : GetIdForFilepath(filepath)
    \/ \E text \in Texts : FetchAudioFile(text)

SpecRegistry == Init /\ [][NextRegistry]_vars

Allocated(d) == {d.filepath_to_id[k] : k \in DOMAIN d.filepath_to_id}

(* What holds of every request, whatever "the same filepath" means: the id  *)
(* is negative; a filepath whose key is new gets the next of -1, -2, -3,    *)
(* ..., an id no other key has; and no two keys share an id afterwards      *)
AllocatesInOrder(filepath) ==
    LET id == call'.index[1]
        key == KeyOf(filepath)
    IN  /\ id < 0
        /\ key \notin DOMAIN dl.filepath_to_id =>
              /\ id = 0 - (Cardinality(DOMAIN dl.filepath_to_id) + 1)
              /\ id \notin Allocated(dl)
        /\ \A j, k \in DOMAIN dl'.filepath_to_id :
              dl'.filepath_to_id[j] = dl'.filepath_to_id[k] => j = k

----------------------------------------------------------------------------
(* PUT /queue/ with a new queue order, among the requests that fill the     *)
(* queue and the download that registers the fake id -1                     *)

ReorderIds == {1, 2, UnknownId, 0 - 1, 0 - 2}

Reorders == SeqsUpTo(ReorderIds, MaxSetLen) \ {<<>>}

NextReorder ==
    \/ \E q \in Reorders : QueuePut(Put(None, None, None, None, q))
    \/ QueuePut(Put(None, None, Some(2), None, <<>>))
    \/ FetchAudioFile("a")
    \/ PlayerPause
    \/ PlayerNext

SpecReorder == Init /\ [][NextReorder]_vars

KnownId(id) == IF id >= 0 THEN id \in TrackIds ELSE id \in dl.id_to_download_info

(* C23: PUT /queue/ with {queue: [ids]} replaces the real queue with        *)
(* exactly the listed items in the listed order, an id >= 0 being looked up *)
(* in the catalog and an id < 0 in the download registry; when a listed id  *)
(* is unknown in its store the request fails with 404 and the queue, the    *)
(* current index and the status are unchanged.                              *)
C23_QueueReorder ==
    [][current = "file" =>
        \A q \in Reorders : QueuePut(Put(None, None, None, None, q)) =>
            IF \A i \in 1..Len(q) : KnownId(q[i])
            THEN last' = 204 /\ fp'.queue = q
            ELSE /\ last' = 404
                 /\ fp'.queue = fp.queue /\ fp'.idx = fp.idx /\ fp'.status = fp.status]_vars

----------------------------------------------------------------------------
(* DownloadHistory (downloadhistory.py) *)

max_length == 3         \* DownloadHistory.max_length (10 in the application)

Urls == {"u1", "u2", "u3", "u4", "u5", "u6"}

(* add without the removal of the earlier occurrence *)
DownloadHistory_add_keeping(entries, url) ==
    LET inserted == <<url>> \o entries
    IN  SubSeq(inserted, 1, IF Len(inserted) < max_length THEN Len(inserted) ELSE max_length)

DownloadHistory_add(entries, url) ==
    LET popped_ == IF Contains(entries, url) THEN Pop(entries, IndexOf(entries, url) - 1)
                   ELSE entries
        inserted == <<url>> \o popped_
    IN  SubSeq(inserted, 1, IF Len(inserted) < max_length THEN Len(inserted) ELSE max_length)

HistoryAdd(url) ==
    /\ history' = DownloadHistory_add(history, url)
    /\ call' = [op |-> "DownloadHistory.add", index |-> Some(Len(history)), ret |-> "None"]
    /\ UNCHANGED <<dl, notDl>>

NextHistory == \E url \in Urls : HistoryAdd(url)

SpecHistory == Init /\ [][NextHistory]_vars

(* C25: add(url) puts url at position 0 of entries, removes any earlier     *)
(* occurrence of it and keeps the order of the other entries; afterwards    *)
(* entries has no duplicates and at most max_length elements, the least     *)
(* recently added being the ones dropped.                                   *)
C25_HistoryAdd ==
    [][\A url \in Urls : HistoryAdd(url) =>
        LET Other(x) == x # url
            others == Filter(history, Other)
            kept == IF Len(others) < max_length - 1 THEN Len(others) ELSE max_length - 1
        IN  /\ history'[1] = url
            /\ Tail(history') = SubSeq(others, 1, kept)
            /\ Len(history') <= max_length
            /\ \A i, j \in 1..Len(history') : history'[i] = history'[j] => i = j]_vars

(* C25 witness: entries was full, and after add("u4") it holds u4 and the   *)
(* two most recent of the others                                            *)
C25_Witness ==
    /\ call.op = "DownloadHistory.add" /\ call.index = Some(max_length)
    /\ Len(history) = max_length /\ history[1] = "u4"

----------------------------------------------------------------------------
(* The catalog (database/schema.py, database/database.py, scan/directory.py) *)

(* A table is the set of its rows and a row is a record of its columns.     *)
(* NULL is Null in an integer column and "" in a string column; SQLAlchemy  *)
(* turns column == None into IS NULL, so a NULL matches a NULL in a filter  *)
Null == 0

MaxTrackId == 2         \* a scan adds a track while the new row's Id is at most this
MaxArtworkId == 2       \* and an artwork while the new row's Id is at most this

Filepaths == {"f1", "f2", "f3"}
TwoFiles == {"f1", "f2"}
Titles == {"t1", "t2"}
GenreNames == {"Rock", "Punk"}
ArtPaths == {"/cover.jpg", "/other.jpg"}

(* The two album references of test_change_compilation_to_single_artist *)
AlbumRefs ==
    {[Title |-> "My Album", Artist |-> "Various Artists", IsCompilation |-> TRUE,
      VolumeCount |-> Null, ReleaseYear |-> Null],
     [Title |-> "My Album", Artist |-> "Bill and Ben", IsCompilation |-> FALSE,
      VolumeCount |-> Null, ReleaseYear |-> Null]}

RowIds(rows) == {r.Id : r \in rows}
RowOf(rows, id) == CHOOSE r \in rows : r.Id = id

(* The Id of a new row of an INTEGER PRIMARY KEY column in SQLite: one more *)
(* than the largest Id in the table                                         *)
NewId(rows) ==
    IF rows = {} THEN 1
    ELSE (CHOOSE m \in RowIds(rows) : \A i \in RowIds(rows) : i <= m) + 1

(* Track.Genre of a reference is a genre name (a str), a genre id or None *)
GenreName(name) == [str |-> name, id |-> Null]
GenreId(id) == [str |-> "", id |-> id]

ensure_genre_exists(d, genre_name) ==
    LET genre == {g \in d.Genres : g.Name = genre_name}
        Id == NewId(d.Genres)
    IN  IF genre = {}
        THEN [db |-> [d EXCEPT !.Genres = @ \cup {[Id |-> Id, Name |-> genre_name]}],
              Id |-> Id]
        ELSE [db |-> d, Id |-> (CHOOSE g \in genre : TRUE).Id]

(* A stored VolumeCount or ReleaseYear after a call that carries `given`:  *)
(* the test of lines 161-162 and 165-166                                    *)
raised_to(stored, given) ==
    IF stored = Null \/ (given # Null /\ stored < given) THEN given ELSE stored

(* The query of lines 150-153 with Artist as line 149 leaves it *)
albums_like(d, Title, Artist) == {a \in d.Albums : a.Title = Title /\ a.Artist = Artist}

(* session.add of the reference: it becomes the new row *)
insert_album(d, albumref, Artist) ==
    LET Id == NewId(d.Albums)
    IN  [db |-> [d EXCEPT !.Albums = @ \cup
                    {[Id |-> Id, Title |-> albumref.Title, Artist |-> Artist,
                      IsCompilation |-> albumref.IsCompilation,
                      VolumeCount |-> albumref.VolumeCount,
                      ReleaseYear |-> albumref.ReleaseYear, Genres |-> {}]}],
         Id |-> Id]

(* The else branch: the row that exists, with the two counts raised *)
update_album(d, albumref, album) ==
    [db |-> [d EXCEPT !.Albums = (@ \ {album}) \cup
                {[album EXCEPT !.VolumeCount = raised_to(@, albumref.VolumeCount),
                               !.ReleaseYear = raised_to(@, albumref.ReleaseYear)]}],
     Id |-> album.Id]

(* A call that stores the reference's Artist for a compilation too *)
ensure_album_exists_with_artist(d, albumref) ==
    IF albums_like(d, albumref.Title, albumref.Artist) = {}
    THEN insert_album(d, albumref, albumref.Artist)
    ELSE update_album(d, albumref,
                      CHOOSE a \in albums_like(d, albumref.Title, albumref.Artist) : TRUE)

(* A call that copies the reference's counts onto the row that exists *)
ensure_album_exists_overwriting(d, albumref) ==
    LET Artist == IF albumref.IsCompilation THEN "" ELSE albumref.Artist
        album == CHOOSE a \in albums_like(d, albumref.Title, Artist) : TRUE
    IN  IF albums_like(d, albumref.Title, Artist) = {}
        THEN insert_album(d, albumref, Artist)
        ELSE [db |-> [d EXCEPT !.Albums = (@ \ {album}) \cup
                         {[album EXCEPT !.VolumeCount = albumref.VolumeCount,
                                        !.ReleaseYear = albumref.ReleaseYear]}],
              Id |-> album.Id]

ensure_album_exists(d, albumref) ==
    LET Artist == IF albumref.IsCompilation THEN "" ELSE albumref.Artist
    IN  IF albums_like(d, albumref.Title, Artist) = {}
        THEN insert_album(d, albumref, Artist)
        ELSE update_album(d, albumref, CHOOSE a \in albums_like(d, albumref.Title, Artist) : TRUE)

(* An artwork reference with a Path, which is the Path; Width and Height    *)
(* are the same in every reference                                          *)
ensure_artwork_exists(d, artworkref) ==
    LET existing_artwork == {a \in d.Artwork : a.Path = artworkref}
        Id == NewId(d.Artwork)
    IN  IF existing_artwork = {}
        THEN [db |-> [d EXCEPT !.Artwork = @ \cup {[Id |-> Id, Path |-> artworkref]}],
              Id |-> Id]
        ELSE [db |-> d, Id |-> (CHOOSE a \in existing_artwork : TRUE).Id]

(* The first two lines of ensure_track_exists: a Genre that is a str is     *)
(* replaced by the Id of the genre of that name                             *)
resolve_genre(d, trackref) ==
    IF trackref.Genre.str # ""
    THEN LET genre == ensure_genre_exists(d, trackref.Genre.str)
         IN  [db |-> genre.db, ref |-> [trackref EXCEPT !.Genre = GenreId(genre.Id)]]
    ELSE [db |-> d, ref |-> trackref]

(* session.add of the reference: it becomes the new row and gets its Id *)
insert_track(d, ref) ==
    LET Id == NewId(d.Tracks)
    IN  [db |-> [d EXCEPT !.Tracks = @ \cup
                    {[Id |-> Id, Filepath |-> ref.Filepath, Title |-> ref.Title,
                      Genre |-> ref.Genre.id, Album |-> ref.Album,
                      Artwork |-> ref.Artwork]}],
         Id |-> Id, raised |-> "", ref |-> [ref EXCEPT !.Id = Id]]

(* The loop over the attributes: each one that differs is copied from the   *)
(* reference onto the row, Album and Artwork among them                     *)
update_track(d, ref, track) ==
    [db |-> [d EXCEPT !.Tracks = (@ \ {track}) \cup
                {[track EXCEPT !.Filepath = ref.Filepath, !.Title = ref.Title,
                               !.Genre = ref.Genre.id, !.Album = ref.Album,
                               !.Artwork = ref.Artwork]}],
     Id |-> track.Id, raised |-> "", ref |-> ref]

(* ensure_track_exists once Genre is resolved.  Of the nine columns of the  *)
(* filter the references set Album and Title; the other seven are NULL in   *)
(* every row and every reference                                            *)
find_track(d, ref) ==
    LET res_ == {t \in d.Tracks : t.Album = ref.Album /\ t.Title = ref.Title}
    IN  IF ref.Id = Null
        THEN IF res_ = {} THEN insert_track(d, ref)
             ELSE IF Cardinality(res_) > 1
             THEN [db |-> d, Id |-> Null, raised |-> "AssertionError", ref |-> ref]
             ELSE update_track(d, ref, CHOOSE t \in res_ : TRUE)
        ELSE IF ref.Id \notin RowIds(d.Tracks)
             THEN [db |-> d, Id |-> Null, raised |-> "NotFoundException", ref |-> ref]
             ELSE update_track(d, ref, RowOf(d.Tracks, ref.Id))

(* ensure_track_exists: the catalog afterwards, the Id of the track it      *)
(* returns, the exception it raises ("" for none) and the reference as the  *)
(* call leaves it                                                           *)
ensure_track_exists(d, trackref) ==
    LET resolved == resolve_genre(d, trackref)
    IN  find_track(resolved.db, resolved.ref)

(* session.delete of an artwork: Artwork.Tracks has cascade "all, delete",  *)
(* so its tracks go with it                                                 *)
session_delete_artwork(d, id) ==
    [d EXCEPT !.Artwork = {a \in @ : a.Id # id}, !.Tracks = {t \in @ : t.Artwork # id}]

(* A listener that deletes the artwork of every deleted track *)
delete_artwork_of_track(d, track) ==
    IF track.Artwork \in RowIds(d.Artwork) THEN session_delete_artwork(d, track.Artwork) ELSE d

(* The listener of before_delete on Track, run after the flush that took    *)
(* the track out of the table                                               *)
delete_unused_artwork(d, track) ==
    IF /\ track.Artwork \in RowIds(d.Artwork)
       /\ {t \in d.Tracks : t.Artwork = track.Artwork} = {}
    THEN session_delete_artwork(d, track.Artwork)
    ELSE d

delete_track(d, trackid) ==
    IF trackid \notin RowIds(d.Tracks)
    THEN [db |-> d, raised |-> "NotFoundException"]
    ELSE LET track == RowOf(d.Tracks, trackid)
             flushed == [d EXCEPT !.Tracks = @ \ {track}]
         IN  [db |-> delete_unused_artwork(flushed, track), raised |-> ""]

(* Album.Tracks has no cascade: the session sets the Album of the tracks of *)
(* a deleted album to NULL                                                  *)
delete_album(d, albumid) ==
    [d EXCEPT !.Albums = {a \in @ : a.Id # albumid},
              !.Tracks = {IF t.Album = albumid THEN [t EXCEPT !.Album = Null] ELSE t : t \in @}]

(* The catalog and the reference that set_cross_refs hands to               *)
(* ensure_track_exists, and the album it found or made                      *)
track_call(d, trackref, albumref, artworkref) ==
    LET album == ensure_album_exists(d, albumref)
        artwork == ensure_artwork_exists(album.db, artworkref)
    IN  [db |-> IF artworkref # "" THEN artwork.db ELSE album.db,
         ref |-> [trackref EXCEPT !.Album = album.Id,
                                  !.Artwork = IF artworkref # "" THEN artwork.Id ELSE Null],
         album |-> album.Id]

(* The genres of the tracks an album owns *)
OwnGenres(d, albumid) == {t.Genre : t \in {y \in d.Tracks : y.Album = albumid}} \ {Null}

with_genres(d, albumid, genres) ==
    [d EXCEPT !.Albums = {IF a.Id = albumid THEN [a EXCEPT !.Genres = genres] ELSE a : a \in @}]

(* Lines 34-36: the previous album goes if it has no tracks *)
delete_if_empty(d, previous_album_id) ==
    IF previous_album_id \notin RowIds(d.Albums)
    THEN [db |-> d, raised |-> "NotFoundException"]
    ELSE IF {y \in d.Tracks : y.Album = previous_album_id} = {}
    THEN [db |-> delete_album(d, previous_album_id), raised |-> ""]
    ELSE [db |-> d, raised |-> ""]

(* Lines 29-36, the branch for a reference that came with an Id *)
edit_cross_refs(d, albumid, previous_album_id) ==
    LET recomputed == with_genres(d, albumid, OwnGenres(d, albumid))
    IN  IF previous_album_id # Null /\ previous_album_id # albumid
        THEN delete_if_empty(recomputed, previous_album_id)
        ELSE [db |-> recomputed, raised |-> ""]

(* Lines 37-40, the branch for a reference that came without one *)
new_cross_refs(d, albumid, genre) ==
    IF genre # Null
    THEN with_genres(d, albumid, RowOf(d.Albums, albumid).Genres \cup {genre})
    ELSE d

(* Lines 20-40: t is what ensure_track_exists returned; previous_album_id   *)
(* is read from the row as that call left it                                *)
after_ensure_track(t, albumid, editing_track) ==
    IF t.raised # "" THEN [db |-> t.db, raised |-> t.raised, Id |-> Null]
    ELSE IF editing_track
    THEN LET edited == edit_cross_refs(t.db, albumid, RowOf(t.db.Tracks, t.Id).Album)
         IN  [db |-> edited.db, raised |-> edited.raised, Id |-> t.Id]
    ELSE [db |-> new_cross_refs(t.db, albumid, RowOf(t.db.Tracks, t.Id).Genre),
          raised |-> "", Id |-> t.Id]

set_cross_refs(d, trackref, albumref, artworkref) ==
    LET c == track_call(d, trackref, albumref, artworkref)
    IN  after_ensure_track(ensure_track_exists(c.db, c.ref), c.album, trackref.Id # Null)

(* func.lower(Track.Filepath) == func.lower(path); the paths of the model   *)
(* are in lower case                                                        *)
get_track_by_filepath(d, path) ==
    LET res_ == {t \in d.Tracks : t.Filepath = path}
    IN  IF res_ = {} THEN Null ELSE (CHOOSE t \in res_ : TRUE).Id

(* What a scanner makes of the file at path with the given tags, with the   *)
(* Id that scan_directory gives the reference                               *)
ScannedRef(d, path, title, genre) ==
    [Id |-> get_track_by_filepath(d, path), Filepath |-> path, Title |-> title,
     Genre |-> IF genre = "" THEN GenreId(Null) ELSE GenreName(genre),
     Album |-> Null, Artwork |-> Null]

notCatalog == <<fp, call, current, sp, workq, worker, cb, last, rmvars, volume, wkvars,
                wsvars, stvars, dlvars, dec>>

(* The body of the loop of scan_directory for one file *)
Scan(path, title, genre, albumref, artworkref) ==
    LET trackref == ScannedRef(db, path, title, genre)
        r == set_cross_refs(db, trackref, albumref, artworkref)
    IN  /\ RowIds(r.db.Tracks) \subseteq 1..MaxTrackId
        /\ RowIds(r.db.Artwork) \subseteq 1..MaxArtworkId
        /\ db' = r.db
        /\ res' = [op |-> "set_cross_refs", ret |-> r.raised, Id |-> r.Id,
                   editing |-> trackref.Id # Null]
        /\ UNCHANGED <<files, notCatalog>>

DeleteTrack(trackid) ==
    LET r == delete_track(db, trackid)
    IN  /\ trackid \in RowIds(db.Tracks)
        /\ db' = r.db
        /\ res' = [op |-> "delete_track", ret |-> r.raised, Id |-> trackid,
                   Artwork |-> RowOf(db.Tracks, trackid).Artwork]
        /\ UNCHANGED <<files, notCatalog>>

(* Scans and deletions over two files that move between two albums and     *)
(* three genre tags                                                         *)
NextCatalog ==
    \/ \E path \in TwoFiles, title \in Titles, genre \in GenreNames \cup {""},
          albumref \in AlbumRefs : Scan(path, title, genre, albumref, "")
    \/ \E trackid \in RowIds(db.Tracks) : DeleteTrack(trackid)

SpecCatalog == Init /\ [][NextCatalog]_vars

(* Scans and deletions over three files of one album *)
Compilation == CHOOSE albumref \in AlbumRefs : albumref.IsCompilation

NextEnsureTrack ==
    \/ \E path \in Filepaths, title \in Titles, genre \in {"Rock", ""} :
          Scan(path, title, genre, Compilation, "")
    \/ \E trackid \in RowIds(db.Tracks) : DeleteTrack(trackid)

SpecEnsureTrack == Init /\ [][NextEnsureTrack]_vars

(* C26: ensure_track_exists is idempotent.  For the reference that any scan *)
(* hands to it, the call returns a track, a second call with the same       *)
(* reference returns the track with the same Id, and the second call leaves *)
(* the catalog as the first one left it.                                    *)
C26_EnsureTrackIdempotent ==
    [][\A path \in Filepaths, title \in Titles, genre \in {"Rock", ""} :
            Scan(path, title, genre, Compilation, "") =>
                LET c == track_call(db, ScannedRef(db, path, title, genre), Compilation, "")
                    first == ensure_track_exists(c.db, c.ref)
                    second == ensure_track_exists(first.db, first.ref)
                IN  /\ first.raised = "" /\ second.raised = ""
                    /\ second.Id = first.Id
                    /\ second.db = first.db]_vars

(* C27: after any sequence of scans (a first insert, a rescan with another  *)
(* genre, a rescan that moves the track to another album) and deletions of  *)
(* tracks, the Genres of every album are the distinct non-null Genre values *)
(* of the tracks the album owns.                                            *)
C27_AlbumGenres == \A album \in db.Albums : album.Genres = OwnGenres(db, album.Id)

(* C28: when the rescan of a track that is in the catalog gives it another  *)
(* album, and the album it was in is left without tracks, that album is     *)
(* deleted: after rescanning the only track of the compilation 'My Album'   *)
(* as a single-artist album, one album exists.                              *)
C28_EmptiedAlbumDeleted ==
    [][\A path \in TwoFiles, title \in Titles, genre \in GenreNames \cup {""},
          albumref \in AlbumRefs :
            Scan(path, title, genre, albumref, "") =>
                LET id == get_track_by_filepath(db, path)
                    old == RowOf(db.Tracks, id).Album
                IN  (/\ id # Null /\ res'.ret = ""
                     /\ old # Null
                     /\ RowOf(db'.Tracks, id).Album # old
                     /\ {t \in db'.Tracks : t.Album = old} = {})
                    => old \notin RowIds(db'.Albums)]_vars

(* Scans of two files of one album with one of two cover images or none,   *)
(* and deletions                                                            *)
NextArtwork ==
    \/ \E path \in TwoFiles, title \in Titles, artworkref \in ArtPaths \cup {""} :
          Scan(path, title, "", Compilation, artworkref)
    \/ \E trackid \in RowIds(db.Tracks) : DeleteTrack(trackid)

SpecArtwork == Init /\ [][NextArtwork]_vars

(* C29: delete_track(t) deletes the artwork t refers to exactly when t was  *)
(* the last track that referred to it.  After the deletion t is gone and no *)
(* other track is; the artwork is gone if no other track refers to it, and  *)
(* it is still there if another track does; no other artwork is touched.    *)
C29_LastTrackTakesArtwork ==
    [][\A trackid \in RowIds(db.Tracks) : DeleteTrack(trackid) =>
        LET track == RowOf(db.Tracks, trackid)
            others == {t \in db.Tracks : t.Id # trackid /\ t.Artwork = track.Artwork}
        IN  /\ db'.Tracks = db.Tracks \ {track}
            /\ {a \in db.Artwork : a.Id # track.Artwork} = {a \in db'.Artwork : a.Id # track.Artwork}
            /\ track.Artwork \in RowIds(db.Artwork) =>
                   (track.Artwork \in RowIds(db'.Artwork) <=> others # {})]_vars

(* C29 witness: the track deleted last referred to an artwork, and the      *)
(* artwork is gone while another artwork and another track are still there  *)
C29_Witness ==
    /\ res.op = "delete_track" /\ res.ret = ""
    /\ res.Artwork # Null /\ res.Artwork \notin RowIds(db.Artwork)
    /\ db.Artwork # {} /\ db.Tracks # {}

----------------------------------------------------------------------------
(* The sweep for tracks whose file is gone (database/tidy.py) *)

query_size == 100

(* The track ids of a catalog that has seen insertions and deletions: 1 and *)
(* 2 share the first page, no id is in the page of 200..299                 *)
PersistedIds == {1, 2, 150, 320}
PathOfId == (1 :> "f1") @@ (2 :> "f2") @@ (150 :> "f3") @@ (320 :> "f4")
TidyPaths == {PathOfId[id] : id \in PersistedIds}

Persisted(ids) ==
    [DatabaseInit EXCEPT !.Tracks =
        {[Id |-> id, Filepath |-> PathOfId[id], Title |-> PathOfId[id], Genre |-> Null,
          Album |-> Null, Artwork |-> Null] : id \in ids}]

(* A page that stops the loop at the first page without tracks *)
get_all_tracks_paged_to_gap(d, start_id, limit) ==
    LET result == {t \in d.Tracks : start_id <= t.Id /\ t.Id < start_id + limit}
    IN  IF result = {} THEN [ret |-> "None", rows |-> {}] ELSE [ret |-> "rows", rows |-> result]

(* ret is "rows" for a list, "None" past the largest id, and "TypeError"    *)
(* when the table is empty: max(Id) is then NULL, first() is the row        *)
(* (None,), and start_id > None raises                                      *)
get_all_tracks_paged(d, start_id, limit) ==
    LET result == {t \in d.Tracks : start_id <= t.Id /\ t.Id < start_id + limit}
    IN  IF result # {} THEN [ret |-> "rows", rows |-> result]
        ELSE IF d.Tracks = {} THEN [ret |-> "TypeError", rows |-> {}]
        ELSE IF \A t \in d.Tracks : start_id > t.Id THEN [ret |-> "None", rows |-> {}]
        ELSE [ret |-> "rows", rows |-> {}]

(* The while loop of delete_missing_tracks from start_id on *)
RECURSIVE to_delete_from(_, _, _)
to_delete_from(d, fs, start_id) ==
    LET tracks == get_all_tracks_paged(d, start_id, query_size)
        rest == to_delete_from(d, fs, start_id + query_size)
    IN  IF tracks.ret # "rows" THEN [ret |-> tracks.ret, ids |-> {}]
        ELSE [ret |-> rest.ret,
              ids |-> {t.Id : t \in {x \in tracks.rows : x.Filepath \notin fs}} \cup rest.ids]

(* The for loop: delete_track for each id, in the order of the ids *)
RECURSIVE delete_each(_, _)
delete_each(d, ids) ==
    IF ids = {} THEN d
    ELSE LET track_id == CHOOSE i \in ids : \A j \in ids : i <= j
         IN  delete_each(delete_track(d, track_id).db, ids \ {track_id})

delete_missing_tracks(d, fs) ==
    LET to_delete == to_delete_from(d, fs, 0)
    IN  IF to_delete.ret = "TypeError"
        THEN [db |-> d, raised |-> "TypeError", deleted |-> {}]
        ELSE [db |-> delete_each(d, to_delete.ids), raised |-> "", deleted |-> to_delete.ids]

DeleteMissingTracks ==
    LET r == delete_missing_tracks(db, files)
    IN  /\ db' = r.db
        /\ res' = [op |-> "delete_missing_tracks", ret |-> r.raised, deleted |-> r.deleted]
        /\ UNCHANGED <<files, notCatalog>>

(* Somebody removes or restores a music file between two sweeps *)
RemoveFile(path) ==
    /\ path \in files
    /\ files' = files \ {path}
    /\ UNCHANGED <<db, res, notCatalog>>

CreateFile(path) ==
    /\ path \notin files
    /\ files' = files \cup {path}
    /\ UNCHANGED <<db, res, notCatalog>>

(* A server started on a database file that an earlier run left, with any   *)
(* of its music files on disk                                               *)
InitTidy ==
    /\ InitServer
    /\ db \in {Persisted(ids) : ids \in SUBSET PersistedIds}
    /\ files \in SUBSET TidyPaths
    /\ res = [op |-> "init", ret |-> "None"]

NextTidy ==
    \/ DeleteMissingTracks
    \/ \E path \in TidyPaths : RemoveFile(path)
    \/ \E path \in TidyPaths : CreateFile(path)

SpecTidy == InitTidy /\ [][NextTidy]_vars

(* C30: after delete_missing_tracks the catalog holds exactly the tracks    *)
(* whose Filepath is a file on disk, whatever the gaps between the ids, a   *)
(* gap wider than a page of query_size ids included: no track with a file   *)
(* is deleted, none without one is kept, and a second run with the disk     *)
(* unchanged changes nothing.                                               *)
C30_MissingTracksDeleted ==
    [][DeleteMissingTracks =>
        /\ db'.Tracks = {t \in db.Tracks : t.Filepath \in files}
        /\ delete_missing_tracks(db', files').db = db']_vars

(* C30 witness: the sweep deleted track 320 and kept track 1, with no id in *)
(* the two pages between them                                               *)
C30_Witness ==
    /\ res.op = "delete_missing_tracks" /\ res.ret = ""
    /\ res.deleted = {320}
    /\ RowIds(db.Tracks) = {1}

----------------------------------------------------------------------------
(* A scan as the worker runs it: scan_directory inside DatabaseAccess       *)
(* (workthread.py, scan/directory.py, database.py)                          *)

(* The worker takes a SCAN_DIRECTORY request: res keeps the catalog as it   *)
(* was then and the files that rglob has still to yield                     *)
ScanJobStart ==
    /\ ~(res.op = "scan_directory" /\ res.ret = "running")
    /\ res' = [op |-> "scan_directory", ret |-> "running", start |-> db, todo |-> TwoFiles]
    /\ UNCHANGED <<db, files, notCatalog>>

(* One file of the scan.  Every ensure_ call that adds a row commits, and   *)
(* DatabaseAccess.__exit__ commits whatever is pending, exception or not:   *)
(* db is the committed catalog either way                                   *)
ScanJobFile(path, title, genre) ==
    LET r == set_cross_refs(db, ScannedRef(db, path, title, genre), Compilation, "")
    IN  /\ res.op = "scan_directory" /\ res.ret = "running"
        /\ path \in res.todo
        /\ RowIds(r.db.Tracks) \subseteq 1..MaxTrackId
        /\ db' = r.db
        /\ res' = [res EXCEPT !.ret = IF r.raised = "" THEN "running" ELSE r.raised,
                              !.todo = @ \ {path}]
        /\ UNCHANGED <<files, notCatalog>>

(* The scanner raises on a file it cannot read (mutagen.mp3.MP3 on a file   *)
(* that is no MP3): nothing catches it before DatabaseAccess.__exit__       *)
ScanJobRaise(path) ==
    /\ res.op = "scan_directory" /\ res.ret = "running"
    /\ path \in res.todo
    /\ res' = [res EXCEPT !.ret = "MutagenError", !.todo = @ \ {path}]
    /\ UNCHANGED <<db, files, notCatalog>>

(* rglob is exhausted *)
ScanJobEnd ==
    /\ res.op = "scan_directory" /\ res.ret = "running"
    /\ res.todo = {}
    /\ res' = [res EXCEPT !.ret = ""]
    /\ UNCHANGED <<db, files, notCatalog>>

NextScanJob ==
    \/ ScanJobStart
    \/ \E path \in TwoFiles, title \in Titles, genre \in {"Rock", ""} :
          ScanJobFile(path, title, genre)
    \/ \E path \in TwoFiles : ScanJobRaise(path)
    \/ ScanJobEnd

SpecScanJob == Init /\ [][NextScanJob]_vars

(* C31: a scan that fails part-way leaves the catalog as it was before the  *)
(* scan started: nothing that the files processed before the failure        *)
(* created or changed is committed.                                         *)
C31_FailedScanLeavesCatalog ==
    (res.op = "scan_directory" /\ res.ret \notin {"running", ""}) => db = res.start

----------------------------------------------------------------------------
(* Albums (database.py, ensure_album_exists) *)

MaxVolumeCount == 2     \* VolumeCount of a reference: none or 1..MaxVolumeCount
MaxReleaseYear == 2     \* ReleaseYear of a reference: none or one of this many years, in order

(* The compilation and the single-artist album of the tests, with every     *)
(* VolumeCount and ReleaseYear                                              *)
AlbumInputs ==
    {[albumref EXCEPT !.VolumeCount = v, !.ReleaseYear = y] :
        albumref \in AlbumRefs, v \in 0..MaxVolumeCount, y \in 0..MaxReleaseYear}

(* The Artist of the identity of a reference *)
IdentityArtist(albumref) == IF albumref.IsCompilation THEN "" ELSE albumref.Artist

EnsureAlbum(albumref) ==
    LET r == ensure_album_exists(db, albumref)
    IN  /\ db' = r.db
        /\ res' = [op |-> "ensure_album_exists", ret |-> "", Id |-> r.Id,
                   existed |-> r.Id \in RowIds(db.Albums), ref |-> albumref]
        /\ UNCHANGED <<files, notCatalog>>

NextAlbum == \E albumref \in AlbumInputs : EnsureAlbum(albumref)

SpecAlbum == Init /\ [][NextAlbum]_vars

(* What the claim says of one stored count after a call that carries given *)
Monotone(old, new, given) ==
    /\ new >= old
    /\ (given = Null \/ (old # Null /\ given <= old)) => new = old
    /\ (given # Null /\ (old = Null \/ given > old)) => new = given

(* C32: across ensure_album_exists calls for one album identity the stored  *)
(* VolumeCount and ReleaseYear never decrease and never go from a value to  *)
(* null: a call that carries a smaller value or none leaves the stored      *)
(* value, a call that carries a larger one raises it; the albums of other   *)
(* identities are not touched.                                              *)
C32_CountsOnlyRise ==
    [][(res'.op = "ensure_album_exists" /\ EnsureAlbum(res'.ref)) =>
        LET albumref == res'.ref IN
        \A old \in db.Albums :
            IF old.Title = albumref.Title /\ old.Artist = IdentityArtist(albumref)
            THEN LET new == RowOf(db'.Albums, old.Id)
                 IN  /\ old.Id \in RowIds(db'.Albums)
                     /\ Monotone(old.VolumeCount, new.VolumeCount, albumref.VolumeCount)
                     /\ Monotone(old.ReleaseYear, new.ReleaseYear, albumref.ReleaseYear)
            ELSE old \in db'.Albums]_vars

(* C32 witness: the last call carried VolumeCount 1 and an earlier          *)
(* ReleaseYear for an album that holds larger ones, and the album kept them *)
C32_Witness ==
    /\ res.op = "ensure_album_exists" /\ res.existed
    /\ res.ref.VolumeCount = 1 /\ res.ref.ReleaseYear = Null
    /\ RowOf(db.Albums, res.Id).VolumeCount = 2
    /\ RowOf(db.Albums, res.Id).ReleaseYear = 2

(* C33: the identity of an album is (Title, Artist) with Artist null for a  *)
(* compilation.  No two albums share an identity, every album with          *)
(* IsCompilation has no Artist, and a call adds one album when no album has *)
(* the identity of its reference and none when one has.                     *)
C33_OneAlbumPerIdentity ==
    /\ [](/\ \A a, b \in db.Albums : (a.Title = b.Title /\ a.Artist = b.Artist) => a = b
          /\ \A a \in db.Albums : a.IsCompilation => a.Artist = "")
    /\ [][(res'.op = "ensure_album_exists" /\ EnsureAlbum(res'.ref)) =>
            LET albumref == res'.ref
                Same(d) == {a \in d.Albums : /\ a.Title = albumref.Title
                                             /\ a.Artist = IdentityArtist(albumref)}
            IN  /\ Cardinality(Same(db')) = 1
                /\ {a.Id : a \in Same(db')} = {res'.Id}
                /\ RowIds(db'.Albums) = RowIds(db.Albums) \cup {res'.Id}
                /\ Same(db) # {} => RowIds(db'.Albums) = RowIds(db.Albums)]_vars

(* C33 witness: a compilation and a single-artist album of the same title   *)
(* are two albums, and the last call repeated an earlier one                *)
C33_Witness ==
    /\ res.op = "ensure_album_exists" /\ res.existed
    /\ \E a, b \in db.Albums : /\ a.Title = b.Title
                               /\ a.IsCompilation /\ a.Artist = ""
                               /\ ~b.IsCompilation /\ b.Artist = "Bill and Ben"
    /\ Cardinality(db.Albums) = 2

----------------------------------------------------------------------------
(* The paged iteration over the tracks (database.py, get_all_tracks_paged) *)

(* start = 0; while (tracks := get_all_tracks_paged(start, n)) is not None: *)
(* start += n.  ret is how the loop ends and pages the ids of each list it  *)
(* got, in order                                                            *)
RECURSIVE pages_from(_, _, _)
pages_from(d, start_id, n) ==
    LET tracks == get_all_tracks_paged(d, start_id, n)
        rest == pages_from(d, start_id + n, n)
    IN  IF tracks.ret # "rows" THEN [ret |-> tracks.ret, pages |-> <<>>]
        ELSE [ret |-> rest.ret, pages |-> <<RowIds(tracks.rows)>> \o rest.pages]

(* Some start_ids below, at and above the ids of the catalogs *)
Starts == {0, 1, 2, 3, 100, 150, 151, 200, 300, 320, 321, 400}

(* C34: the paged iteration ends with the sentinel for every catalog, the   *)
(* empty one and those with gaps wider than a page included, and visits     *)
(* every track once; get_all_tracks_paged returns the sentinel exactly when *)
(* start_id is above the largest track id.                                  *)
C34_PagedIterationEnds ==
    LET it == pages_from(db, 0, query_size)
    IN  /\ it.ret = "None"
        /\ \A i, j \in 1..Len(it.pages) : i # j => it.pages[i] \cap it.pages[j] = {}
        /\ UNION {it.pages[i] : i \in 1..Len(it.pages)} = RowIds(db.Tracks)
        /\ \A start_id \in Starts :
              get_all_tracks_paged(db, start_id, query_size).ret = "None"
                  <=> \A t \in db.Tracks : start_id > t.Id

----------------------------------------------------------------------------
(* One poll cycle of the NowPlayingUpdater (streamplayer.py, do_all_fetches) *)

NoUrl == ""             \* a station column that is None
FetchUrls == {"u1", "u2"}

(* What jq makes of fetched data for the track info filter: a dict with or  *)
(* without artist and track, something that is no dict, or None             *)
TrackInfos ==
    {[kind |-> "dict", artist |-> "a", track |-> "t"],
     [kind |-> "dict", artist |-> "a", track |-> ""],
     [kind |-> "str", artist |-> "", track |-> ""],
     [kind |-> "None", artist |-> "", track |-> ""]}

(* and for the artwork filter: a str, something that is no str, or None *)
ArtworkUrls == {"str", "dict", "None"}

(* What a fetch of one url gives: ok is FALSE for None or empty text *)
FetchData == [ok : BOOLEAN, track_info : TrackInfos, artwork_url : ArtworkUrls]

(* The value set_track_info returns: a track_info that is no dict is        *)
(* replaced by {}, whose artist and track are None                          *)
set_track_info_returns(track_info) ==
    IF track_info.kind = "dict" /\ track_info.artist # "" /\ track_info.track # ""
    THEN 60 ELSE 30

(* The value set_artwork returns *)
set_artwork_returns(artwork_url) == IF artwork_url = "str" THEN 60 ELSE 30

(* MinimumSeen.update; the value None is Null *)
MinimumSeen_update_last(value, v) == v

MinimumSeen_update(value, v) == IF value = Null THEN v ELSE IF v < value THEN v ELSE value

(* self.dynamic_info as play() fills it: a dict in insertion order, one key *)
(* for the track info url and one for the artwork url, or one key with both *)
(* callbacks when the urls are equal                                        *)
play_dynamic_info(get_track_info_url, get_artwork_url) ==
    IF get_track_info_url = get_artwork_url
    THEN <<[url |-> get_track_info_url, updates |-> <<"set_track_info", "set_artwork">>]>>
    ELSE <<[url |-> get_track_info_url, updates |-> <<"set_track_info">>],
           [url |-> get_artwork_url, updates |-> <<"set_artwork">>]>>

(* The loop over the updates of a url whose fetch gave data *)
RECURSIVE save_results(_, _, _)
save_results(updates, data, value) ==
    IF updates = <<>> THEN value
    ELSE LET delta == IF Head(updates) = "set_track_info"
                      THEN set_track_info_returns(data.track_info)
                      ELSE set_artwork_returns(data.artwork_url)
         IN  save_results(Tail(updates), data, MinimumSeen_update(value, delta))

(* The loop of do_all_fetches over dynamic_info from its first entry on,    *)
(* with the minimum seen so far and the urls fetched so far.  fetch(None)   *)
(* raises MissingSchema, which nothing catches                              *)
RECURSIVE fetch_each(_, _, _, _)
fetch_each(dynamic_info, data, value, fetched) ==
    IF dynamic_info = <<>>
    THEN [ret |-> IF value = Null THEN 10 ELSE value, raised |-> "", fetched |-> fetched]
    ELSE IF Head(dynamic_info).url = NoUrl
    THEN [ret |-> Null, raised |-> "MissingSchema", fetched |-> fetched]
    ELSE fetch_each(Tail(dynamic_info), data,
                    IF data[Head(dynamic_info).url].ok
                    THEN save_results(Head(dynamic_info).updates,
                                      data[Head(dynamic_info).url], value)
                    ELSE MinimumSeen_update(value, 10),
                    Append(fetched, Head(dynamic_info).url))

do_all_fetches(dynamic_info, data) == fetch_each(dynamic_info, data, Null, <<>>)

notPoll == <<fp, call, current, sp, workq, worker, cb, last, rmvars, volume, wkvars,
             wsvars, stvars, dlvars, db, files, dec>>

(* One cycle of run(): the delay added to now, the urls fetched, and what   *)
(* the cycle ran on                                                         *)
DoAllFetches(dynamic_info, data) ==
    LET r == do_all_fetches(dynamic_info, data)
    IN  /\ res' = [op |-> "do_all_fetches", ret |-> r.raised, delay |-> r.ret,
                   fetched |-> r.fetched, dynamic_info |-> dynamic_info, data |-> data]
        /\ UNCHANGED notPoll

(* What the two urls give in one cycle; u2 is only ever an artwork url *)
CycleData ==
    {data \in [FetchUrls -> FetchData] : data["u2"].track_info.kind = "None"}

(* Cycles on a player that never played and on stations with every choice   *)
(* of the two urls, shared and missing ones included                        *)
NextFetches ==
    \E dynamic_info \in {<<>>} \cup
            {play_dynamic_info(t, a) : t \in {"u1", NoUrl}, a \in FetchUrls \cup {NoUrl}},
       data \in CycleData : DoAllFetches(dynamic_info, data)

SpecFetches == Init /\ [][NextFetches]_vars

(* The deltas the claim counts in a cycle: 10 for a url whose fetch failed, *)
(* and for each callback of a url that was fetched 60 when the track info   *)
(* has artist and track or the artwork url is there, 30 otherwise           *)
CountedDeltas(dynamic_info, data) ==
    UNION {IF ~data[dynamic_info[i].url].ok THEN {10}
           ELSE {IF \/ /\ dynamic_info[i].updates[k] = "set_track_info"
                       /\ data[dynamic_info[i].url].track_info.kind = "dict"
                       /\ data[dynamic_info[i].url].track_info.artist # ""
                       /\ data[dynamic_info[i].url].track_info.track # ""
                    \/ /\ dynamic_info[i].updates[k] = "set_artwork"
                       /\ data[dynamic_info[i].url].artwork_url = "str"
                 THEN 60 ELSE 30 : k \in 1..Len(dynamic_info[i].updates)}
           : i \in 1..Len(dynamic_info)}

----------------------------------------------------------------------------
(* The FilePlayer under every one of its operations, and the snapshot of it *)

(* FilePlayer.current_track: None without an index, queue[index] otherwise  *)
current_track(p) ==
    IF p.idx = None THEN [ret |-> "None", track |-> None]
    ELSE IF InRange(p.queue, p.idx[1])
    THEN [ret |-> "", track |-> Some(At(p.queue, p.idx[1]))]
    ELSE [ret |-> "IndexError", track |-> None]

(* FilePlayer.number_of_tracks: None for an empty queue *)
number_of_tracks(p) == IF p.queue # <<>> THEN Some(Len(p.queue)) ELSE None

(* The part of get_current_status that reads the file player's position *)
get_current_status(p) ==
    [ret |-> IF current_track(p).ret = "IndexError" THEN "IndexError" ELSE "",
     CurrentTrackIndex |-> IF p.idx = None THEN None ELSE Some(p.idx[1] + 1),
     MaximumTrackIndex |-> number_of_tracks(p),
     CurrentTrack |-> current_track(p).track]

NextFilePlayer ==
    \/ \E q \in SeqsUpTo(TrackIds, MaxSetLen) : CallSetQueue(q)
    \/ \E t \in TrackIds : CallAddToQueue(t)
    \/ \E i \in Indexes, t \in TrackIds : CallRemoveFromQueue(i, t)
    \/ \E i \in Indexes, t \in OptTrack : CallPlayFromReal(i, t)
    \/ \E i \in Indexes, t \in OptTrack : CallPlayFromApparent(i, t)
    \/ CallNext
    \/ CallPrev
    \/ CallPause
    \/ CallResume
    \/ CallStop
    \/ CallOnMusicEnd

SpecFilePlayer == Init /\ [][NextFilePlayer]_vars

(* C36: after any sequence of file player operations the current index is  *)
(* null or an index of the queue, so the snapshot's current track is        *)
(* defined and its 1-based CurrentTrackIndex is at most MaximumTrackIndex.  *)
C36_CurrentIndexInQueue ==
    /\ fp.idx = None \/ (0 <= fp.idx[1] /\ fp.idx[1] < Len(fp.queue))
    /\ get_current_status(fp).ret = ""
    /\ get_current_status(fp).CurrentTrackIndex # None =>
           /\ get_current_status(fp).MaximumTrackIndex # None
           /\ get_current_status(fp).CurrentTrackIndex[1] <=
                  get_current_status(fp).MaximumTrackIndex[1]

----------------------------------------------------------------------------
(* C37: a play request answered with 404 (unknown album, playlist, track or *)
(* station), with 400 for a start track that is not in the collection, or   *)
(* with 409 for a queue position that fails the check leaves the current    *)
(* player, both players, the file queue and the current index as they were. *)
C37_RejectedPlayChangesNothing ==
    [][\A req \in PlayRequests :
          (/\ PlayerPlay(req)
           /\ \/ last' \in {404, 409}
              \/ last' = 400 /\ ~PlayRequestRejected(req))
          => (current' = current /\ fp' = fp /\ sp' = sp)]_vars

----------------------------------------------------------------------------
(* C38: prev() never fails.  Without a current index it returns and leaves  *)
(* the player as it was; with index 0 it restarts item 0; otherwise it      *)
(* plays the item before the current one (the files being on disk).         *)
C38_PrevNeverFails ==
    [][CallPrev =>
          /\ call'.ret = "None"
          /\ fp.idx = None => fp' = fp
          /\ (fp.idx # None /\ InRange(fp.queue, fp.idx[1])
                /\ \A i \in 1..Len(fp.queue) : isfile(fp.queue[i])) =>
                 /\ fp'.idx = Some(IF fp.idx[1] = 0 THEN 0 ELSE fp.idx[1] - 1)
                 /\ fp'.status = PLAYING /\ fp'.player
                 /\ fp'.queue = fp.queue]_vars

----------------------------------------------------------------------------
(* The decoders behind the FilePlayer.  _play_song makes a new decoder      *)
(* object each time; each has a thread of its own that notices the end of   *)
(* the file (ChildMonitorThread.run, MPyg321Player.process_output) and then *)
(* calls parent.on_music_end().  dec.made numbers the decoders, the last    *)
(* made being current_player while fp.player holds; dec.ended holds those   *)
(* whose thread has seen the end (and, for mpv, found its callback set) and *)
(* has not yet run on_music_end                                             *)

MaxDecoders == 4        \* decoders made in one behaviour

notDecoder == <<current, sp, workq, worker, cb, last, rmvars, volume, wkvars,
                wsvars, stvars, dlvars, dbvars>>

(* A request thread runs one FilePlayer method *)
DecoderCalled(op, index, r) ==
    /\ r.start # "none" => dec.made < MaxDecoders
    /\ fp' = r.fp
    /\ call' = [op |-> op, index |-> index, ret |-> r.ret]
    /\ dec' = [dec EXCEPT !.made = IF r.start # "none" THEN @ + 1 ELSE @]
    /\ UNCHANGED notDecoder

(* The playing decoder's file ends and its thread is about to call back *)
DecoderEnds ==
    /\ fp.player /\ fp.status = PLAYING
    /\ dec.made \notin dec.ended
    /\ dec' = [dec EXCEPT !.ended = @ \cup {dec.made}]
    /\ UNCHANGED <<fp, call, notDecoder>>

(* The thread of decoder d calls parent.on_music_end() *)
DecoderSignal(d) ==
    /\ d \in dec.ended
    /\ on_music_end(fp).start # "none" => dec.made < MaxDecoders
    /\ fp' = on_music_end(fp).fp
    /\ call' = [op |-> "on_music_end", index |-> Some(d), ret |-> on_music_end(fp).ret]
    /\ dec' = [made |-> IF on_music_end(fp).start # "none" THEN dec.made + 1 ELSE dec.made,
               ended |-> dec.ended \ {d}]
    /\ UNCHANGED notDecoder

NextDecoder ==
    \/ \E t \in TrackIds :
          Len(fp.queue) < MaxPlayerQueue /\ DecoderCalled("add_to_queue", None, add_to_queue(fp, t))
    \/ \E i \in 0..1, t \in TrackIds :
          DecoderCalled("remove_from_queue", Some(i), remove_from_queue(fp, i, t))
    \/ \E i \in 0..1 :
          DecoderCalled("play_from_real_queue_index", Some(i), play_from_real_queue_index(fp, i, None))
    \/ DecoderCalled("next", None, next(fp))
    \/ fp.idx # None /\ DecoderCalled("prev", None, prev(fp))
    \/ DecoderCalled("stop", None, Result(stop(fp), "None", "none"))
    \/ DecoderEnds
    \/ \E d \in 1..MaxDecoders : DecoderSignal(d)

SpecDecoder == Init /\ [][NextDecoder]_vars

(* C39: an end-of-song call from a decoder that is no longer the player's   *)
(* backing decoder (it was stopped or replaced in the meantime) leaves the  *)
(* current index alone.                                                     *)
C39_StaleSignalIgnored ==
    [][(/\ call'.op = "on_music_end" /\ call'.index # None
        /\ DecoderSignal(call'.index[1])
        /\ ~(fp.player /\ call'.index[1] = dec.made))
       => fp'.idx = fp.idx]_vars

----------------------------------------------------------------------------
(* C40: the scan of a file that yielded tags leaves a Track row with that   *)
(* file's path, and every track that belonged to another path before still  *)
(* has its path, also when the two files carry the same tags.               *)
C40_ScanKeepsOtherPaths ==
    [][(res'.op = "set_cross_refs" /\ res'.ret = "") =>
          /\ res'.Id \in RowIds(db'.Tracks)
          /\ \A t \in db.Tracks :
                 t.Filepath # RowOf(db'.Tracks, res'.Id).Filepath =>
                     \E u \in db'.Tracks : u.Id = t.Id /\ u.Filepath = t.Filepath]_vars

====
